---- MODULE Spec2Model ----
(***************************************************************************)
(* Semantic indexing subsystem of meta-supervisor: tokenizer, TF-IDF       *)
(* vectorizer, chunker and the SQLite-backed SemanticStore.                *)
(*                                                                         *)
(* Strings are sequences of one-character strings, so that the regular     *)
(* expressions of the source are evaluated character by character.         *)
(* Floating-point weights are fixed-point integers with SCALE units per 1. *)
(***************************************************************************)
EXTENDS Integers, Sequences, FiniteSets, TLC

\* ------------------------------------------------------------------------
\* Characters
\* ------------------------------------------------------------------------

LowerSeq == <<"a","b","c","d","e","f","g","h","i","j","k","l","m",
              "n","o","p","q","r","s","t","u","v","w","x","y","z">>
UpperSeq == <<"A","B","C","D","E","F","G","H","I","J","K","L","M",
              "N","O","P","Q","R","S","T","U","V","W","X","Y","Z">>
DigitSeq == <<"0","1","2","3","4","5","6","7","8","9">>

Range(f) == { f[x] : x \in DOMAIN f }

LowerCh == Range(LowerSeq)
UpperCh == Range(UpperSeq)
DigitCh == Range(DigitSeq)
\* \w of the regular expressions
WordCh  == LowerCh \cup UpperCh \cup DigitCh \cup {"_"}
\* the backquote character (a string constant cannot hold it)
BackQuote == "bq"
\* the quote characters of tokenize's string-literal pattern
QuoteCh == {"\"", "'", BackQuote}
\* \s of the regular expressions, restricted to the characters used here
SpaceCh == {" ", "\t", "\n", "\r"}
\* characters the regular expression '.' does not match
LineTermCh == {"\n", "\r"}

ToLowerCh(c) ==
    IF c \in UpperCh
    THEN LowerSeq[CHOOSE i \in DOMAIN UpperSeq : UpperSeq[i] = c]
    ELSE c

\* String.prototype.toLowerCase
RECURSIVE ToLowerCase(_)
ToLowerCase(s) ==
    IF s = <<>> THEN <<>> ELSE <<ToLowerCh(Head(s))>> \o ToLowerCase(Tail(s))

\* s.slice(i-1, j) in 1-based inclusive positions
Slice(s, i, j) == IF j < i THEN <<>> ELSE SubSeq(s, i, j)

\* ------------------------------------------------------------------------
\* tokenize
\* ------------------------------------------------------------------------

STR_LITERAL == <<" ","S","T","R","_","L","I","T","E","R","A","L"," ">>
NUM_LITERAL == <<" ","N","U","M","_","L","I","T","E","R","A","L"," ">>

\* Position of the closing quote of /(["'`])(?:(?!\1|\\).|\\.)*\1/ opened by
\* quote q, scanning from k; 0 when the pattern does not match.
RECURSIVE StrLitEnd(_, _, _)
StrLitEnd(s, q, k) ==
    IF k > Len(s) THEN 0
    ELSE IF s[k] = q THEN k
    ELSE IF s[k] = "\\"
         THEN IF k + 1 <= Len(s) /\ s[k + 1] \notin LineTermCh
              THEN StrLitEnd(s, q, k + 2)
              ELSE 0
    ELSE IF s[k] \in LineTermCh THEN 0
    ELSE StrLitEnd(s, q, k + 1)

\* code.replace(/(["'`])(?:(?!\1|\\).|\\.)*\1/g, " STR_LITERAL ")
RECURSIVE ReplaceStrings(_, _)
ReplaceStrings(s, i) ==
    IF i > Len(s) THEN <<>>
    ELSE IF s[i] \in QuoteCh /\ StrLitEnd(s, s[i], i + 1) > 0
         THEN STR_LITERAL \o ReplaceStrings(s, StrLitEnd(s, s[i], i + 1) + 1)
         ELSE <<s[i]>> \o ReplaceStrings(s, i + 1)

\* last position of the run of digits starting at i (i - 1 when there is none)
RECURSIVE DigitRunEnd(_, _)
DigitRunEnd(s, i) ==
    IF i <= Len(s) /\ s[i] \in DigitCh THEN DigitRunEnd(s, i + 1) ELSE i - 1

IsWordAt(s, i) == i >= 1 /\ i <= Len(s) /\ s[i] \in WordCh

\* \b between positions i - 1 and i
BoundaryBefore(s, i) == IsWordAt(s, i - 1) # IsWordAt(s, i)

\* End of the match of /\b\d+\.?\d*\b/ starting at i, 0 when none: the
\* greedy choices are tried in the order of the backtracking matcher.
NumEnd(s, i) ==
    IF ~(i <= Len(s) /\ s[i] \in DigitCh /\ BoundaryBefore(s, i)) THEN 0
    ELSE LET e1 == DigitRunEnd(s, i)
             dot == e1 + 1 <= Len(s) /\ s[e1 + 1] = "."
             e2 == DigitRunEnd(s, e1 + 2)
         IN  IF dot /\ e2 > e1 + 1 /\ BoundaryBefore(s, e2 + 1) THEN e2
             ELSE IF dot /\ BoundaryBefore(s, e1 + 2) THEN e1 + 1
             ELSE IF BoundaryBefore(s, e1 + 1) THEN e1
             ELSE 0

\* cleaned.replace(/\b\d+\.?\d*\b/g, " NUM_LITERAL ")
RECURSIVE ReplaceNumbers(_, _)
ReplaceNumbers(s, i) ==
    IF i > Len(s) THEN <<>>
    ELSE IF NumEnd(s, i) > 0
         THEN NUM_LITERAL \o ReplaceNumbers(s, NumEnd(s, i) + 1)
         ELSE <<s[i]>> \o ReplaceNumbers(s, i + 1)

\* cleaned.replace(/([a-z])([A-Z])/g, "$1 $2")
RECURSIVE SplitCamel(_, _)
SplitCamel(s, i) ==
    IF i > Len(s) THEN <<>>
    ELSE IF s[i] \in LowerCh /\ i + 1 <= Len(s) /\ s[i + 1] \in UpperCh
         THEN <<s[i], " ", s[i + 1]>> \o SplitCamel(s, i + 2)
         ELSE <<s[i]>> \o SplitCamel(s, i + 1)

\* last position of the run of upper-case letters starting at i
RECURSIVE UpperRunEnd(_, _)
UpperRunEnd(s, i) ==
    IF i <= Len(s) /\ s[i] \in UpperCh THEN UpperRunEnd(s, i + 1) ELSE i - 1

\* cleaned.replace(/([A-Z]+)([A-Z][a-z])/g, "$1 $2")
RECURSIVE SplitAcronym(_, _)
SplitAcronym(s, i) ==
    IF i > Len(s) THEN <<>>
    ELSE LET e == UpperRunEnd(s, i)
         IN  IF e >= i + 1 /\ e + 1 <= Len(s) /\ s[e + 1] \in LowerCh
             THEN Slice(s, i, e - 1) \o <<" ", s[e], s[e + 1]>>
                    \o SplitAcronym(s, e + 2)
             ELSE <<s[i]>> \o SplitAcronym(s, i + 1)

AlnumLower == LowerCh \cup DigitCh

\* .split(/[^a-z0-9]+/) followed by .filter((t) => t.length >= 2):
\* cur is the piece being collected
RECURSIVE SplitTokens(_, _, _)
SplitTokens(s, i, cur) ==
    IF i > Len(s)
    THEN IF Len(cur) >= 2 THEN <<cur>> ELSE <<>>
    ELSE IF s[i] \in AlnumLower
         THEN SplitTokens(s, i + 1, Append(cur, s[i]))
         ELSE (IF Len(cur) >= 2 THEN <<cur>> ELSE <<>>)
                \o SplitTokens(s, i + 1, <<>>)

tokenize(code) ==
    LET c1 == ReplaceStrings(code, 1)
        c2 == ReplaceNumbers(c1, 1)
        c3 == SplitCamel(c2, 1)
        c4 == SplitAcronym(c3, 1)
    IN  SplitTokens(ToLowerCase(c4), 1, <<>>)

\* ------------------------------------------------------------------------
\* Strings
\* ------------------------------------------------------------------------

\* s.split("\n"): the lines of s from position i on, one line a turn
RECURSIVE SplitLinesFrom(_, _)
SplitLinesFrom(s, i) ==
    IF \A k \in i..Len(s) : s[k] # "\n" THEN <<Slice(s, i, Len(s))>>
    ELSE LET n == CHOOSE k \in i..Len(s) :
                     s[k] = "\n" /\ \A j \in i..(k - 1) : s[j] # "\n"
         IN  <<Slice(s, i, n - 1)>> \o SplitLinesFrom(s, n + 1)
SplitLines(s) == SplitLinesFrom(s, 1)

\* lines.join("\n")
RECURSIVE JoinLines(_)
JoinLines(ls) ==
    IF ls = <<>> THEN <<>>
    ELSE IF Len(ls) = 1 THEN ls[1]
    ELSE ls[1] \o <<"\n">> \o JoinLines(Tail(ls))

\* first position >= i that holds no white space (Len(s) + 1 when none)
RECURSIVE SkipSpaces(_, _)
SkipSpaces(s, i) ==
    IF i <= Len(s) /\ s[i] \in SpaceCh THEN SkipSpaces(s, i + 1) ELSE i

\* last position <= j that holds no white space (0 when none)
RECURSIVE SkipSpacesBack(_, _)
SkipSpacesBack(s, j) ==
    IF j >= 1 /\ s[j] \in SpaceCh THEN SkipSpacesBack(s, j - 1) ELSE j

\* s.trim()
Trim(s) == Slice(s, SkipSpaces(s, 1), SkipSpacesBack(s, Len(s)))

\* whether p occurs in s at position i
StartsWithAt(s, i, p) ==
    i + Len(p) - 1 <= Len(s) /\ SubSeq(s, i, i + Len(p) - 1) = p
StartsWith(s, p) == StartsWithAt(s, 1, p)
EndsWith(s, p) == Len(p) <= Len(s) /\ StartsWithAt(s, Len(s) - Len(p) + 1, p)
Includes(s, p) == \E i \in 1..(Len(s) + 1) : StartsWithAt(s, i, p)

\* last position of the run of \w characters starting at i
RECURSIVE WordRunEnd(_, _)
WordRunEnd(s, i) ==
    IF i <= Len(s) /\ s[i] \in WordCh THEN WordRunEnd(s, i + 1) ELSE i - 1

\* ------------------------------------------------------------------------
\* chunkCode
\* ------------------------------------------------------------------------

KwImportSp   == <<"i","m","p","o","r","t"," ">>
KwImportBr   == <<"i","m","p","o","r","t","{">>
KwBraceFrom  == <<"}"," ","f","r","o","m">>
KwLineCmt    == <<"/","/">>
KwBlockCmt   == <<"/","*">>
KwExport     == <<"e","x","p","o","r","t">>
KwType       == <<"t","y","p","e">>
KwInterface  == <<"i","n","t","e","r","f","a","c","e">>
KwAbstract   == <<"a","b","s","t","r","a","c","t">>
KwClass      == <<"c","l","a","s","s">>
KwAsync      == <<"a","s","y","n","c">>
KwFunction   == <<"f","u","n","c","t","i","o","n">>
KwConst      == <<"c","o","n","s","t">>
KwLet        == <<"l","e","t">>
KwVar        == <<"v","a","r">>
KwDefault    == <<"d","e","f","a","u","l","t">>
KwArrow      == <<"=",">">>

\* the position after (?:kw\s+)? tried at i
OptWord(s, i, kw) ==
    IF StartsWithAt(s, i, kw) /\ i + Len(kw) <= Len(s) /\ s[i + Len(kw)] \in SpaceCh
    THEN SkipSpaces(s, i + Len(kw))
    ELSE i

NoMatch == [ok |-> FALSE, name |-> <<>>, to |-> 0]

\* kw\s+(\w+) tried at i: the captured name and the position of its end
WordThenName(s, i, kw) ==
    IF StartsWithAt(s, i, kw) /\ i + Len(kw) <= Len(s) /\ s[i + Len(kw)] \in SpaceCh
    THEN LET n == SkipSpaces(s, i + Len(kw))
             e == WordRunEnd(s, n)
         IN  IF e >= n THEN [ok |-> TRUE, name |-> SubSeq(s, n, e), to |-> e]
             ELSE NoMatch
    ELSE NoMatch

\* the first of the alternatives kws[1] | kws[2] | ... to match kw\s+(\w+) at i
RECURSIVE AnyWordThenName(_, _, _)
AnyWordThenName(s, i, kws) ==
    IF kws = <<>> THEN NoMatch
    ELSE IF WordThenName(s, i, Head(kws)).ok THEN WordThenName(s, i, Head(kws))
    ELSE AnyWordThenName(s, i, Tail(kws))

\* /^(?:export\s+)?(?:type|interface)\s+(\w+)/
TypeMatch(t) == AnyWordThenName(t, OptWord(t, 1, KwExport), <<KwType, KwInterface>>)

\* /^(?:export\s+)?(?:abstract\s+)?class\s+(\w+)/
ClassMatch(t) ==
    WordThenName(t, OptWord(t, OptWord(t, 1, KwExport), KwAbstract), KwClass)

\* /^(?:export\s+)?(?:async\s+)?function\s+(\w+)/
FuncMatch(t) ==
    WordThenName(t, OptWord(t, OptWord(t, 1, KwExport), KwAsync), KwFunction)

\* /^(?:export\s+)?(?:const|let|var)\s+(\w+)/
VarMatch(t) ==
    AnyWordThenName(t, OptWord(t, 1, KwExport), <<KwConst, KwLet, KwVar>>)

\* first position >= i that holds "=" (Len(s) + 1 when none)
RECURSIVE NextEquals(_, _)
NextEquals(s, i) ==
    IF i <= Len(s) /\ s[i] # "=" THEN NextEquals(s, i + 1) ELSE i

\* /^(?:export\s+)?(?:const|let|var)\s+(\w+)\s*(?::\s*[^=]+)?\s*=\s*(?:async\s+)?(?:\(|[a-zA-Z])/
\* After the name, the "=" is either the next character that is no white
\* space, or the first "=" after a ":" with at least one character between
\* them; what follows the "=" and white space must be "(" or a letter
\* (the optional async begins with a letter, so it decides nothing).
ArrowEquals(t, a) ==
    IF a <= Len(t) /\ t[a] = "=" THEN a
    ELSE IF a <= Len(t) /\ t[a] = ":" /\ NextEquals(t, a + 1) > a + 1
            /\ NextEquals(t, a + 1) <= Len(t)
         THEN NextEquals(t, a + 1)
         ELSE 0
ArrowValueAt(t, v, eq, r) ==
    IF v.ok /\ eq > 0 /\ r <= Len(t)
       /\ (t[r] = "(" \/ t[r] \in LowerCh \cup UpperCh)
    THEN v ELSE NoMatch
ArrowAfterEquals(t, v, eq) == ArrowValueAt(t, v, eq, SkipSpaces(t, eq + 1))
ArrowAfterName(t, v) ==
    ArrowAfterEquals(t, v, ArrowEquals(t, SkipSpaces(t, v.to + 1)))
ArrowMatch(t) == ArrowAfterName(t, VarMatch(t))

\* /^export\s+(default|{)/
ExportMatch(t) ==
    /\ StartsWith(t, KwExport)
    /\ Len(t) > Len(KwExport)
    /\ t[Len(KwExport) + 1] \in SpaceCh
    /\ LET n == SkipSpaces(t, Len(KwExport) + 1)
       IN  StartsWithAt(t, n, KwDefault) \/ StartsWithAt(t, n, <<"{">>)

\* the look-ahead window of findStatementEnd, in lines
StatementWindow == 30

\* findStatementEnd(lines, start), with 1-based line numbers
RECURSIVE StatementEndFrom(_, _, _)
StatementEndFrom(lines, start, i) ==
    IF i > start + StatementWindow - 1 \/ i > Len(lines) THEN start
    ELSE LET t == Trim(lines[i])
         IN  IF t = <<>> /\ i > start THEN i - 1
             ELSE IF EndsWith(t, <<";">>) THEN i
             ELSE StatementEndFrom(lines, start, i + 1)
findStatementEnd(lines, start) == StatementEndFrom(lines, start, start)

\* findBlockEnd's scan: position c of line i, with the brace depth so far;
\* returns the line on which the depth returns to zero, 0 when the lines
\* end first, and -1 when they end without any "{"
RECURSIVE BlockScan(_, _, _, _, _)
BlockScan(lines, i, c, braceDepth, foundOpen) ==
    IF i > Len(lines) THEN (IF foundOpen THEN 0 ELSE -1)
    ELSE IF c > Len(lines[i]) THEN BlockScan(lines, i + 1, 1, braceDepth, foundOpen)
    ELSE IF lines[i][c] = "{"
         THEN BlockScan(lines, i, c + 1, braceDepth + 1, TRUE)
    ELSE IF lines[i][c] = "}"
         THEN IF foundOpen /\ braceDepth - 1 = 0 THEN i
              ELSE BlockScan(lines, i, c + 1, braceDepth - 1, foundOpen)
    ELSE BlockScan(lines, i, c + 1, braceDepth, foundOpen)

\* a block end that knows no nesting: the first line from start on that
\* holds a "}", the last line when there is none
findFirstClose(lines, start) ==
    IF \E i \in start..Len(lines) : Includes(lines[i], <<"}">>)
    THEN CHOOSE i \in start..Len(lines) :
            /\ Includes(lines[i], <<"}">>)
            /\ \A j \in start..(i - 1) : ~Includes(lines[j], <<"}">>)
    ELSE Len(lines)

\* findBlockEnd(lines, start), with 1-based line numbers
findBlockEnd(lines, start) ==
    LET r == BlockScan(lines, start, 1, 0, FALSE)
    IN  IF r > 0 THEN r
        ELSE IF r = -1 THEN findStatementEnd(lines, start)
        ELSE Len(lines)

\* A CodeChunk; a null name is the empty sequence
Chunk(content, type, startLine, endLine, name) ==
    [content |-> content, type |-> type, startLine |-> startLine,
     endLine |-> endLine, name |-> name]

\* the import-block loop of chunkCode from line i on; importStart and
\* importEnd are 1-based line numbers, 0 while there is none
RECURSIVE ImportScan(_, _, _, _)
ImportScan(lines, i, importStart, importEnd) ==
    IF i > Len(lines) THEN <<importStart, importEnd>>
    ELSE LET trimmed == Trim(lines[i])
         IN  IF \/ StartsWith(trimmed, KwImportSp)
                \/ StartsWith(trimmed, KwImportBr)
                \/ (importStart > 0 /\ (\/ StartsWith(trimmed, KwBraceFrom)
                                        \/ trimmed = <<>>
                                        \/ StartsWith(trimmed, KwLineCmt)))
             THEN ImportScan(lines, i + 1,
                             IF importStart = 0 THEN i ELSE importStart, i)
             ELSE IF /\ importStart > 0
                     /\ Len(trimmed) > 0
                     /\ ~StartsWith(trimmed, KwLineCmt)
                     /\ ~StartsWith(trimmed, KwBlockCmt)
                  THEN <<importStart, importEnd>>
                  ELSE ImportScan(lines, i + 1, importStart, importEnd)

\* step 1 of chunkCode: the import chunk, if any
ImportChunks(lines) ==
    LET r == ImportScan(lines, 1, 0, 0)
        importContent == Trim(JoinLines(Slice(lines, r[1], r[2])))
    IN  IF r[1] > 0 /\ Len(importContent) > 0
        THEN <<Chunk(importContent, "import", r[1], r[2],
                     <<"i","m","p","o","r","t","s">>)>>
        ELSE <<>>

\* lines.slice(i, end + 1).join("\n")
LinesText(lines, i, end) == JoinLines(Slice(lines, i, end))

\* One turn of the walk of step 2 at line i: whether a chunk is pushed,
\* the chunk, and the line the walk goes on from
NoDecl(i) ==
    [has |-> FALSE, next |-> i + 1, chunk |-> Chunk(<<>>, "block", i, i, <<>>)]
Decl(lines, i, end, type, name) ==
    [has |-> TRUE, next |-> end + 1,
     chunk |-> Chunk(LinesText(lines, i, end), type, i, end, name)]
ArrowDecl(m, content) ==
    m.ok /\ (Includes(content, KwArrow) \/ Includes(content, KwFunction))
VarDecl(lines, i, m) ==
    IF m.ok THEN Decl(lines, i, findStatementEnd(lines, i), "block", m.name)
    ELSE NoDecl(i)
OtherDecl(lines, i, blockEnd, trimmed, arrow) ==
    IF ArrowDecl(arrow, LinesText(lines, i, blockEnd))
    THEN Decl(lines, i, blockEnd, "function", arrow.name)
    ELSE IF ExportMatch(trimmed)
    THEN Decl(lines, i, blockEnd, "export", <<>>)
    ELSE VarDecl(lines, i, VarMatch(trimmed))
NamedDecl(lines, i, blockEnd, trimmed, type, class, func) ==
    IF type.ok THEN Decl(lines, i, blockEnd, "type", type.name)
    ELSE IF class.ok THEN Decl(lines, i, blockEnd, "class", class.name)
    ELSE IF func.ok THEN Decl(lines, i, blockEnd, "function", func.name)
    ELSE OtherDecl(lines, i, blockEnd, trimmed, ArrowMatch(trimmed))
DeclOf(lines, i, trimmed) ==
    IF trimmed = <<>> \/ StartsWith(trimmed, KwLineCmt) THEN NoDecl(i)
    ELSE NamedDecl(lines, i, findBlockEnd(lines, i), trimmed,
                   TypeMatch(trimmed), ClassMatch(trimmed), FuncMatch(trimmed))
DeclPush(chunks, d) == IF d.has THEN Append(chunks, d.chunk) ELSE chunks

\* step 2 of chunkCode: the walk over the lines from line i on
RECURSIVE DeclWalk(_, _, _, _)
DeclWalk(lines, i, chunks, d) ==
    IF d.next > Len(lines) THEN DeclPush(chunks, d)
    ELSE DeclWalk(lines, d.next, DeclPush(chunks, d),
                  DeclOf(lines, d.next, Trim(lines[d.next])))
DeclScan(lines, i, chunks) ==
    IF i > Len(lines) THEN chunks
    ELSE DeclWalk(lines, i, chunks, DeclOf(lines, i, Trim(lines[i])))

chunkCode(source) ==
    LET lines == SplitLines(source)
    IN  DeclScan(lines, 1, ImportChunks(lines))

\* ------------------------------------------------------------------------
\* Input texts
\* ------------------------------------------------------------------------

\* The texts given to addDocuments and embed when a vectorizer is used on
\* its own
TxGetUser  == <<"g","e","t","U","s","e","r">>
TxUserStr  == <<"u","s","e","r"," ","="," ","'","x","'">>
TxNoTokens == <<"a"," ","+"," ","b">>
TxGetGet   == <<"g","e","t","(","g","e","t",")">>
Texts == {TxGetUser, TxUserStr, TxNoTokens, TxGetGet}

\* The texts searched for; TxNovel has one token, which no source file has
TxNovel == <<"f","o","o">>
TxGetNameFrom == <<"g","e","t","N","a","m","e"," ","f","r","o","m">>
Queries == {TxGetNameFrom, TxNoTokens, TxNovel}

\* The source files of the indexed projects:
\*   const getUser = () => 1;
SrcArrow ==
    <<"c","o","n","s","t"," ","g","e","t","U","s","e","r"," ","="," ",
      "(",")"," ","=",">"," ","1",";">>
\*   import x from 'y';
\*   function getName() {
\*     return x;
\*   }
SrcImportFunc ==
    <<"i","m","p","o","r","t"," ","x"," ","f","r","o","m"," ","'","y","'",";","\n",
      "f","u","n","c","t","i","o","n"," ","g","e","t","N","a","m","e","(",")"," ","{","\n",
      " "," ","r","e","t","u","r","n"," ","x",";","\n",
      "}">>
\*   # notes
SrcNotes == <<"#"," ","n","o","t","e","s">>
\*   function getName() {
\*     return x;
\*   }
SrcGetName ==
    <<"f","u","n","c","t","i","o","n"," ","g","e","t","N","a","m","e","(",")"," ","{","\n",
      " "," ","r","e","t","u","r","n"," ","x",";","\n",
      "}">>
\*   class Repo {
\*     get() { return 1; }
\*   }
SrcRepo ==
    <<"c","l","a","s","s"," ","R","e","p","o"," ","{","\n",
      " "," ","g","e","t","(",")"," ","{"," ","r","e","t","u","r","n"," ","1",";"," ","}","\n",
      "}">>
\*   function getName() {
\*     log(x);
\*   }
CandNoReturn ==
    <<"f","u","n","c","t","i","o","n"," ","g","e","t","N","a","m","e","(",")"," ","{","\n",
      " "," ","l","o","g","(","x",")",";","\n",
      "}">>
\*   function getName() {
\*     try { return x; } catch {}
\*   }
CandTry ==
    <<"f","u","n","c","t","i","o","n"," ","g","e","t","N","a","m","e","(",")"," ","{","\n",
      " "," ","t","r","y"," ","{"," ","r","e","t","u","r","n"," ","x",";"," ","}"," ","c","a","t","c","h"," ","{","}","\n",
      "}">>
\*   async function getName() {
\*     return x;
\*   }
CandAsync ==
    <<"a","s","y","n","c"," ","f","u","n","c","t","i","o","n"," ","g","e","t","N","a","m","e","(",")"," ","{","\n",
      " "," ","r","e","t","u","r","n"," ","x",";","\n",
      "}">>
\*   class Repo {
\*     get() { log(1); }
\*   }
CandRepoNoReturn ==
    <<"c","l","a","s","s"," ","R","e","p","o"," ","{","\n",
      " "," ","g","e","t","(",")"," ","{"," ","l","o","g","(","1",")",";"," ","}","\n",
      "}">>

\* the files given to analyzeFile
Candidates == {SrcGetName, SrcImportFunc, CandNoReturn, CandTry, CandAsync,
               CandRepoNoReturn}

\* a file of one-line classes, one more than findSimilar asks search for,
\* and a file with one class that resembles them
LnClassGet ==
    <<"c","l","a","s","s"," ","G","e","t"," ","{","}">>
LnClassSet ==
    <<"c","l","a","s","s"," ","S","e","t"," ","{","}">>
SrcMany == JoinLines([i \in 1..(20 + 1) |-> LnClassGet])

Sources == {SrcArrow, SrcImportFunc, SrcNotes, SrcGetName, SrcRepo, SrcMany,
            LnClassSet} \cup Candidates

\* chunkCode and tokenize are pure: their results for the inputs above are
\* computed once
ChunkTable == [src \in Sources |-> chunkCode(src)]
ChunksOf(src) == ChunkTable[src]

ChunkContents(chunks) == { chunks[i].content : i \in DOMAIN chunks }
ChunkTexts == UNION { ChunkContents(ChunksOf(src)) : src \in Sources }
TokenTable == [t \in Texts \cup ChunkTexts \cup Queries |-> tokenize(t)]
TokensOfText(t) == TokenTable[t]

\* ------------------------------------------------------------------------
\* JavaScript values
\* ------------------------------------------------------------------------

\* Numbers are integers >= 0; the three values below stand for the
\* JavaScript values undefined, NaN and null where a number is expected.
UNDEFINED == -1
NAN == -2
NULLV == -3

IsNumber(x) == x >= 0

\* x || d
OrElse(x, d) == IF x \in {UNDEFINED, NAN, NULLV, 0} THEN d ELSE x

\* x++ (the value stored back)
Increment(x) ==
    IF x \in {UNDEFINED, NAN} THEN NAN
    ELSE IF x = NULLV THEN 1
    ELSE x + 1

\* A Map is the sequence of its entries <<key, value>> in insertion order.
MapHas(m, k) == \E i \in DOMAIN m : m[i][1] = k
MapGet(m, k) ==
    IF MapHas(m, k) THEN m[CHOOSE i \in DOMAIN m : m[i][1] = k][2] ELSE UNDEFINED
MapSet(m, k, v) ==
    IF MapHas(m, k)
    THEN [i \in DOMAIN m |-> IF m[i][1] = k THEN <<k, v>> ELSE m[i]]
    ELSE Append(m, <<k, v>>)
MapSize(m) == Len(m)
MapKeys(m) == { m[i][1] : i \in DOMAIN m }

\* new Map(entries): later entries of a key overwrite earlier ones
RECURSIVE MapFromEntries(_, _)
MapFromEntries(entries, m) ==
    IF entries = <<>> THEN m
    ELSE MapFromEntries(Tail(entries), MapSet(m, Head(entries)[1], Head(entries)[2]))

\* new Set(tokens) in insertion order: the distinct elements by first occurrence
RECURSIVE Distinct(_, _)
Distinct(seq, acc) ==
    IF seq = <<>> THEN acc
    ELSE Distinct(Tail(seq),
                  IF \E i \in DOMAIN acc : acc[i] = Head(seq)
                  THEN acc ELSE Append(acc, Head(seq)))

\* ------------------------------------------------------------------------
\* TfIdfVectorizer
\* ------------------------------------------------------------------------

\* new TfIdfVectorizer()
NewVectorizer == [vocab |-> <<>>, df |-> <<>>, totalDocs |-> 0]

\* A faulty inner loop: a new token gets the index size + 1 instead of size
RECURSIVE AddTokensOneBased(_, _)
AddTokensOneBased(v, toks) ==
    IF toks = <<>> THEN v
    ELSE LET t  == Head(toks)
             df == MapSet(v.df, t, OrElse(MapGet(v.df, t), 0) + 1)
             vo == IF MapHas(v.vocab, t) THEN v.vocab
                   ELSE MapSet(v.vocab, t, MapSize(v.vocab) + 1)
         IN  AddTokensOneBased([v EXCEPT !.df = df, !.vocab = vo], Tail(toks))

\* the inner loop of addDocuments over the token set of one document
RECURSIVE AddTokens(_, _)
AddTokens(v, toks) ==
    IF toks = <<>> THEN v
    ELSE LET t  == Head(toks)
             df == MapSet(v.df, t, OrElse(MapGet(v.df, t), 0) + 1)
             vo == IF MapHas(v.vocab, t) THEN v.vocab
                   ELSE MapSet(v.vocab, t, MapSize(v.vocab))
         IN  AddTokens([v EXCEPT !.df = df, !.vocab = vo], Tail(toks))

\* A faulty iteration: df is incremented for every occurrence of a token
AddDocumentPerOccurrence(v, doc) ==
    AddTokens([v EXCEPT !.totalDocs = Increment(v.totalDocs)], TokensOfText(doc))

\* one iteration of addDocuments' outer loop
AddDocument(v, doc) ==
    AddTokens([v EXCEPT !.totalDocs = Increment(v.totalDocs)],
              Distinct(TokensOfText(doc), <<>>))

\* A faulty addDocuments: totalDocs is incremented once for the whole batch
RECURSIVE AddAllTokens(_, _)
AddAllTokens(v, documents) ==
    IF documents = <<>> THEN v
    ELSE AddAllTokens(AddTokens(v, Distinct(TokensOfText(Head(documents)), <<>>)),
                      Tail(documents))
addDocumentsCountBatch(v, documents) ==
    IF documents = <<>> THEN v
    ELSE AddAllTokens([v EXCEPT !.totalDocs = Increment(v.totalDocs)], documents)

RECURSIVE addDocuments(_, _)
addDocuments(v, documents) ==
    IF documents = <<>> THEN v
    ELSE LET next == AddDocument(v, Head(documents))
         IN  \* the state after a document is computed before the loop goes on
             IF next = v THEN addDocuments(v, Tail(documents))
             ELSE addDocuments(next, Tail(documents))

vocabSize(v) == MapSize(v.vocab)
documentCount(v) == v.totalDocs

\* Fixed-point unit of the floating-point values: SCALE stands for 1.0
SCALE == 100 * 100

\* Math.log(n) for n = 1, 2, ... in units of 1 / SCALE
LnTable ==
    <<0, 6931, 10986, 13863, 16094, 17918, 19459, 20794, 21972, 23026,
      23979, 24849, 25649, 26391, 27081, 27726, 28332, 28904, 29444, 29957,
      30445, 30910, 31355, 31781, 32189, 32581, 32958, 33322, 33673, 34012,
      34340, 34657, 34965, 35264, 35553, 35835, 36109, 36376, 36636, 36889,
      37136, 37377, 37612, 37842, 38067, 38286, 38501, 38712, 38918, 39120>>

\* Math.log(1 + totalDocs / docFreq) = Math.log((docFreq + totalDocs) / docFreq)
Idf(totalDocs, docFreq) ==
    IF totalDocs \in {UNDEFINED, NAN} THEN NAN
    ELSE LET n == IF totalDocs = NULLV THEN 0 ELSE totalDocs
         IN  LnTable[docFreq + n] - LnTable[docFreq]

\* Math.sqrt on fixed-point squares: the largest r with r * r <= n
RECURSIVE SqrtBetween(_, _, _)
SqrtBetween(n, lo, hi) ==
    IF lo >= hi THEN lo
    ELSE LET mid == (lo + hi + 1) \div 2
         IN  IF mid * mid <= n THEN SqrtBetween(n, mid, hi)
             ELSE SqrtBetween(n, lo, mid - 1)
Sqrt(n) == SqrtBetween(n, 0, 4 * SCALE)

\* the term-frequency Map of embed: token -> number of occurrences
RECURSIVE CountTerms(_, _)
CountTerms(toks, tf) ==
    IF toks = <<>> THEN tf
    ELSE CountTerms(Tail(toks),
                    MapSet(tf, Head(toks), OrElse(MapGet(tf, Head(toks)), 0) + 1))

\* termFreq * idf for one entry of the term-frequency Map
Weight(v, token, count, totalTerms) ==
    LET idf == Idf(v.totalDocs, OrElse(MapGet(v.df, token), 1))
    IN  IF idf = NAN THEN NAN ELSE (count * idf) \div totalTerms

\* the loop "for (const [token, count] of tf)" of embed; vec[idx] is held at
\* position idx + 1, and a store outside the typed array is ignored
RECURSIVE FillWeights(_, _, _, _)
FillWeights(v, tf, totalTerms, vec) ==
    IF tf = <<>> THEN vec
    ELSE LET token == Head(tf)[1]
             idx   == MapGet(v.vocab, token)
             nvec  == IF idx = UNDEFINED \/ idx < 0 \/ idx >= Len(vec) THEN vec
                      ELSE [vec EXCEPT ![idx + 1] =
                              Weight(v, token, Head(tf)[2], totalTerms)]
         IN  FillWeights(v, Tail(tf), totalTerms, nvec)

RECURSIVE SumSquares(_)
SumSquares(vec) ==
    IF vec = <<>> THEN 0 ELSE Head(vec) * Head(vec) + SumSquares(Tail(vec))

HasNaN(vec) == \E i \in DOMAIN vec : vec[i] = NAN

\* A faulty embed tail: the weights are returned as they are
NormalizeSkipped(vec) == vec

\* the L2 normalisation of embed: a NaN norm fails the test norm > 0
Normalize(vec) ==
    IF HasNaN(vec) THEN vec
    ELSE LET norm == Sqrt(SumSquares(vec))
         IN  IF norm > 0
             THEN [i \in DOMAIN vec |-> (vec[i] * SCALE) \div norm]
             ELSE vec

\* A faulty embed: the vector is sized by the text's own distinct tokens
embedSizedByText(v, text) ==
    [data |-> [i \in 1..Len(Distinct(TokensOfText(text), <<>>)) |-> 0],
     dim  |-> Len(Distinct(TokensOfText(text), <<>>))]

EmbedTokens(v, tokens, dim) ==
    IF dim = 0 THEN [data |-> <<>>, dim |-> 0]
    ELSE [data |-> Normalize(FillWeights(v, CountTerms(tokens, <<>>),
                                         OrElse(Len(tokens), 1),
                                         [i \in 1..dim |-> 0])),
          dim |-> dim]
embed(v, text) == EmbedTokens(v, TokensOfText(text), MapSize(v.vocab))

\* the loop "for (let i = 0; i < minDim; i++) dot += a.data[i] * b.data[i]",
\* with dot in units of 1 / (SCALE * SCALE); a NaN operand makes dot NaN
RECURSIVE DotLoop(_, _, _, _, _)
DotLoop(a, b, i, minDim, dot) ==
    IF i > minDim THEN dot
    ELSE DotLoop(a, b, i + 1, minDim,
                 IF dot = NAN \/ a[i] = NAN \/ b[i] = NAN THEN NAN
                 ELSE dot + a[i] * b[i])

MathMin(x, y) == IF x <= y THEN x ELSE y
Rescale(dot) == IF dot = NAN THEN NAN ELSE dot \div SCALE

\* A faulty cosineSimilarity: the test for a zero dimension is missing
cosineWithoutDimTest(a, b) ==
    Rescale(DotLoop(a.data, b.data, 1, MathMin(Len(a.data), Len(b.data)), 0))

\* TfIdfVectorizer.cosineSimilarity(a, b), in units of 1 / SCALE
cosineSimilarity(a, b) ==
    IF a.dim = 0 \/ b.dim = 0 THEN 0
    ELSE Rescale(DotLoop(a.data, b.data, 1, MathMin(Len(a.data), Len(b.data)), 0))

\* ------------------------------------------------------------------------
\* serialize / deserialize
\* ------------------------------------------------------------------------

\* A JSON text is modelled by what JSON.parse makes of it:
\*   kind "text"  not parseable
\*   kind "null"  the text null
\*   kind "obj"   an object; each of vocab and df is [k, v] with k = "arr"
\*                (an array of [string, number] pairs v), "absent" (no such
\*                key) or "num" (a number, which is not iterable);
\*                totalDocs is a number, NULLV, or UNDEFINED for no such key
JsonArr(entries) == [k |-> "arr", v |-> entries]
JsonAbsent == [k |-> "absent", v |-> <<>>]
JsonNotIterable == [k |-> "num", v |-> <<>>]

\* JSON.stringify of a number-valued property: NaN is written as null, and
\* a property whose value is undefined is left out
StringifyNumber(x) == IF x = NAN THEN NULLV ELSE x

\* A faulty serialize: the df table is written empty
serializeWithoutDf(v) ==
    [kind      |-> "obj",
     vocab     |-> JsonArr(v.vocab),
     df        |-> JsonArr(<<>>),
     totalDocs |-> StringifyNumber(v.totalDocs)]

serialize(v) ==
    [kind      |-> "obj",
     vocab     |-> JsonArr(v.vocab),
     df        |-> JsonArr(v.df),
     totalDocs |-> StringifyNumber(v.totalDocs)]

\* new Map(x) for a parsed property x: undefined gives an empty Map, a
\* non-iterable value throws
MapOfJson(x) == IF x.k = "arr" THEN MapFromEntries(x.v, <<>>) ELSE <<>>

\* whether deserialize throws: JSON.parse fails, parsed is null, or a
\* Map constructor is given a non-iterable value
DeserializeThrows(data) ==
    \/ data.kind \in {"text", "null"}
    \/ data.vocab.k = "num"
    \/ data.df.k = "num"

deserialize(data) ==
    [vocab     |-> MapOfJson(data.vocab),
     df        |-> MapOfJson(data.df),
     totalDocs |-> data.totalDocs]

\* ------------------------------------------------------------------------
\* State
\* ------------------------------------------------------------------------

VARIABLES
    vz,          \* a TfIdfVectorizer used on its own: [vocab, df, totalDocs]
    lastOp,      \* the last call on vz or of a pure function, with its
                 \* arguments and result
    rows,        \* table code_chunks, in rowid order
    vrec,        \* table vectorizer_state: the record with id 1
    saved,       \* the vectorizer whose serialization vrec holds, if any
    open,        \* per SemanticStore instance: whether it is constructed
    vectorizer,  \* per SemanticStore instance: its TfIdfVectorizer
    call,        \* the indexCodebase calls in progress, per call slot
    started,     \* number of indexCodebase calls made so far
    corrupted,   \* whether the persisted record has been damaged
    event,       \* the operation that ended in the last step, if any
    watcher,        \* FileWatcher: "watching" once started, else "null"
    changeBuffer,   \* FileWatcher: the changes not yet emitted
    debounceTimer,  \* FileWatcher: "null", or the state of the last timer
    reading,        \* the handleChange calls that await their readFile
    received,       \* the add/change/unlink events received so far
    emitted         \* the events the FileWatcher has emitted so far

vecVars == <<vz, lastOp>>
storeVars == <<rows, vrec, saved, open, vectorizer, call, started,
               corrupted, event>>
watchVars == <<watcher, changeBuffer, debounceTimer, reading, received, emitted>>
vars == <<vz, lastOp, rows, vrec, saved, open, vectorizer, call, started,
          corrupted, event, watcher, changeBuffer, debounceTimer, reading,
          received, emitted>>

\* Bounds
MaxBatch == 2
MaxTotalDocs == 3
MaxIndexCalls == 2
MaxVecLen == 2
MaxLines == 3
MaxBlockLines == 5
MaxEvents == 3

SeqsUpTo(S, n) == UNION { [1..k -> S] : k \in 0..n }

\* ------------------------------------------------------------------------
\* A TfIdfVectorizer used on its own
\* ------------------------------------------------------------------------

NoVector == [data |-> <<>>, dim |-> 0]
NoOp == [op |-> "new", docs |-> <<>>, text |-> <<>>, out |-> NoVector,
         made |-> NewVectorizer, a |-> NoVector, b |-> NoVector, sim |-> 0,
         source |-> <<>>, chunks |-> <<>>]

VecInit ==
    /\ vz = NewVectorizer
    /\ lastOp = NoOp

\* vz.addDocuments(docs)
VAddDocuments(docs) ==
    /\ vz.totalDocs + Len(docs) <= MaxTotalDocs
    /\ vz' = addDocuments(vz, docs)
    /\ lastOp' = [NoOp EXCEPT !.op = "addDocuments", !.docs = docs]
    /\ UNCHANGED <<storeVars, watchVars>>

\* vz.embed(text)
VEmbed(text) ==
    /\ lastOp' = [NoOp EXCEPT !.op = "embed", !.text = text,
                              !.out = embed(vz, text)]
    /\ UNCHANGED vz
    /\ UNCHANGED <<storeVars, watchVars>>

\* TfIdfVectorizer.deserialize(vz.serialize())
VRoundTrip ==
    /\ ~DeserializeThrows(serialize(vz))
    /\ lastOp' = [NoOp EXCEPT !.op = "roundtrip",
                              !.made = deserialize(serialize(vz))]
    /\ UNCHANGED vz
    /\ UNCHANGED <<storeVars, watchVars>>

\* The vectors given to cosineSimilarity: components 0, 0.6, 0.8 and NaN,
\* and a dim that need not be the length of the data (search sets the dim
\* of a stored vector to the dimension of the query)
Components == {0, 6000, 8000, NAN}
Vectors ==
    { [data |-> d, dim |-> n] : d \in SeqsUpTo(Components, MaxVecLen),
                                n \in 0..MaxVecLen }
\* the vectors embed returns: dim is the length of the data
EmbeddedVectors == { v \in Vectors : v.dim = Len(v.data) }

\* TfIdfVectorizer.cosineSimilarity(a, b): a pure function, called once in
\* a behaviour
VCosine(a, b) ==
    /\ lastOp = NoOp
    /\ lastOp' = [NoOp EXCEPT !.op = "cosine", !.a = a, !.b = b,
                              !.sim = cosineSimilarity(a, b)]
    /\ UNCHANGED vz
    /\ UNCHANGED <<storeVars, watchVars>>

\* the lines of the texts given to chunkCode on its own
LnImport ==
    <<"i","m","p","o","r","t"," ","x"," ","f","r","o","m"," ","'","y","'",";">>
LnConst ==
    <<"c","o","n","s","t"," ","a"," ","="," ","1",";">>
LnFunction ==
    <<"f","u","n","c","t","i","o","n"," ","f","(",")"," ","{">>
LnClose ==
    <<"}">>
LnBlank == <<>>
LnType ==
    <<"t","y","p","e"," ","A"," ","="," ","B",";">>
LnIf ==
    <<"i","f"," ","(","a",")"," ","{">>
Lines == {LnImport, LnConst, LnFunction, LnClose, LnBlank, LnType}

\* the lines of the texts with nested blocks
BlockLines == {LnFunction, LnIf, LnConst, LnClose}

\* chunkCode(source): a pure function, called once in a behaviour
VChunkCode(lines) ==
    /\ lastOp = NoOp
    /\ lastOp' = [NoOp EXCEPT !.op = "chunkCode", !.source = JoinLines(lines),
                              !.chunks = chunkCode(JoinLines(lines))]
    /\ UNCHANGED vz
    /\ UNCHANGED <<storeVars, watchVars>>

\* ------------------------------------------------------------------------
\* SemanticStore
\* ------------------------------------------------------------------------

\* the SemanticStore instances (processes) that share the database file
Stores == {"server", "cli"}
\* the absolute paths of the project roots
Roots == {"/ra", "/rb"}
\* the call slots: indexCodebase calls that can be in progress at once, and
\* the instance each slot belongs to
CallIds == {"server1", "server2", "cli1"}
StoreOf(c) == IF c = "cli1" THEN "cli" ELSE "server"

\* the extensions indexCodebase takes for code files
CodeExts == {".ts", ".tsx", ".js", ".jsx", ".mjs", ".cjs"}

File(path, ext, readable, content) ==
    [path |-> path, ext |-> ext, readable |-> readable, content |-> content]

\* the directories a project root can hold
DirEmpty == <<>>
DirOne == <<File("a.ts", ".ts", TRUE, SrcArrow)>>
DirMany == <<File("a.ts", ".ts", TRUE, SrcMany),
             File("b.ts", ".ts", TRUE, LnClassSet)>>
DirTwo == <<File("a.ts", ".ts", TRUE, SrcImportFunc),
            File("b.ts", ".ts", FALSE, <<>>),
            File("notes.md", ".md", TRUE, SrcNotes)>>
Dirs == {DirEmpty, DirOne, DirTwo}

\* No row of vectorizer_state
RecMissing ==
    [kind |-> "missing", vocab |-> JsonAbsent, df |-> JsonAbsent,
     totalDocs |-> UNDEFINED]
\* Damaged records: text that is no JSON; null; {}; an object whose vocab
\* is a number; an object without totalDocs
RecText == [RecMissing EXCEPT !.kind = "text"]
RecNull == [RecMissing EXCEPT !.kind = "null"]
RecEmptyObject == [RecMissing EXCEPT !.kind = "obj"]
RecVocabNumber ==
    [kind |-> "obj", vocab |-> JsonNotIterable, df |-> JsonArr(<<>>),
     totalDocs |-> 0]
RecNoTotalDocs ==
    [kind |-> "obj",
     vocab |-> JsonArr(<< <<<<"g","e","t">>, 0>> >>),
     df |-> JsonArr(<< <<<<"g","e","t">>, 1>> >>),
     totalDocs |-> UNDEFINED]
DamagedRecords == {RecText, RecNull, RecEmptyObject, RecVocabNumber, RecNoTotalDocs}

IdleCall ==
    [pc |-> "idle", store |-> "none", root |-> "none", dir |-> <<>>,
     files |-> <<>>,
     next |-> 0, nfiles |-> 0, reads |-> <<>>, allChunks |-> <<>>,
     chunksStored |-> 0]

NoEvent ==
    [kind |-> "none", store |-> "none", root |-> "none", rec |-> RecMissing,
     filesIndexed |-> 0, chunksStored |-> 0, reads |-> <<>>,
     query |-> <<>>, limit |-> 0, threshold |-> 0, exclude |-> "none",
     duplication |-> 0, results |-> <<>>]

NotSaved == [valid |-> FALSE, v |-> NewVectorizer]

StoreInit ==
    /\ rows = <<>>
    /\ vrec = RecMissing
    /\ saved = NotSaved
    /\ open = [s \in Stores |-> FALSE]
    /\ vectorizer = [s \in Stores |-> NewVectorizer]
    /\ call = [c \in CallIds |-> IdleCall]
    /\ started = 0
    /\ corrupted = FALSE
    /\ event = NoEvent

\* a FileWatcher after its construction
WatchInit ==
    /\ watcher = "null"
    /\ changeBuffer = <<>>
    /\ debounceTimer = "null"
    /\ reading = {}
    /\ received = <<>>
    /\ emitted = <<>>

Init == VecInit /\ StoreInit /\ WatchInit

\* the pc values from the last await of indexCodebase to its return: the
\* instance runs nothing else meanwhile
SyncPcs == {"delete", "insert", "savedel", "saveins"}
Busy(s) == \E c \in CallIds : call[c].store = s /\ call[c].pc \in SyncPcs

\* the constructor's init(): load the vectorizer state if it exists
LoadVectorizer(rec) ==
    IF rec.kind = "missing" THEN NewVectorizer
    ELSE IF DeserializeThrows(rec) THEN NewVectorizer
    ELSE deserialize(rec)

\* new SemanticStore(dbPath)
Open(s) ==
    /\ ~open[s]
    /\ open' = [open EXCEPT ![s] = TRUE]
    /\ vectorizer' = [vectorizer EXCEPT ![s] = LoadVectorizer(vrec)]
    /\ event' = [NoEvent EXCEPT !.kind = "open", !.store = s, !.rec = vrec]
    /\ UNCHANGED <<rows, vrec, saved, call, started, corrupted>>
    /\ UNCHANGED <<vecVars, watchVars>>

\* the process of instance s ends, at any point of what it runs
Exit(s) ==
    /\ open[s]
    /\ open' = [open EXCEPT ![s] = FALSE]
    /\ vectorizer' = [vectorizer EXCEPT ![s] = NewVectorizer]
    /\ call' = [c \in CallIds |-> IF call[c].store = s THEN IdleCall ELSE call[c]]
    /\ event' = NoEvent
    /\ UNCHANGED <<rows, vrec, saved, started, corrupted>>
    /\ UNCHANGED <<vecVars, watchVars>>

\* join(dir, entry) and relative(from, to) of node:path, on paths held as
\* <<directory, entry>>
join(dir, entry) == <<dir, entry>>
relative(from, to) == IF to[1] = from THEN to[2] ELSE to

\* walkDir(absPath, 5): the files found under the root, by their full paths
walkDir(root, dir) ==
    [i \in DOMAIN dir |-> [dir[i] EXCEPT !.path = join(root, dir[i].path)]]

\* files.filter((f) => [".ts", ...].includes(extname(f)))
RECURSIVE CodeFiles(_)
CodeFiles(files) ==
    IF files = <<>> THEN <<>>
    ELSE (IF Head(files).ext \in CodeExts THEN <<Head(files).path>> ELSE <<>>)
            \o CodeFiles(Tail(files))

\* readFile(file, "utf-8") succeeds
CanRead(dir, path) ==
    \E i \in DOMAIN dir : dir[i].path = path /\ dir[i].readable
ReadFile(dir, path) ==
    dir[CHOOSE i \in DOMAIN dir : dir[i].path = path /\ dir[i].readable].content

\* the contents of a sequence of chunks
RECURSIVE Contents(_)
Contents(chunks) ==
    IF chunks = <<>> THEN <<>> ELSE <<Head(chunks).content>> \o Contents(Tail(chunks))

\* allContents: the contents of the chunks of all files read
RECURSIVE AllContents(_)
AllContents(allChunks) ==
    IF allChunks = <<>> THEN <<>>
    ELSE Contents(Head(allChunks).chunks) \o AllContents(Tail(allChunks))

\* the rows insertMany inserts for the chunks of one file
RECURSIVE FileRows(_, _, _, _)
FileRows(v, root, relPath, chunks) ==
    IF chunks = <<>> THEN <<>>
    ELSE LET chunk == Head(chunks)
         IN  <<[file_path     |-> relPath,
                chunk_content |-> chunk.content,
                chunk_type    |-> chunk.type,
                chunk_name    |-> chunk.name,
                start_line    |-> chunk.startLine,
                end_line      |-> chunk.endLine,
                embedding     |-> embed(v, chunk.content).data,
                project_path  |-> root,
                \* no column: the vocabulary the embedding was computed
                \* under, kept for the properties
                embedded_with |-> v.vocab]>>
             \o FileRows(v, root, relPath, Tail(chunks))

\* A faulty insertMany that stops after the first chunk of the first file
BatchRowsFirst(v, root, allChunks) ==
    IF allChunks = <<>> \/ Head(allChunks).chunks = <<>> THEN <<>>
    ELSE FileRows(v, root, relative(root, Head(allChunks).filePath),
                  <<Head(Head(allChunks).chunks)>>)

\* the rows insertMany inserts
RECURSIVE BatchRows(_, _, _)
BatchRows(v, root, allChunks) ==
    IF allChunks = <<>> THEN <<>>
    ELSE FileRows(v, root, relative(root, Head(allChunks).filePath),
                  Head(allChunks).chunks)
            \o BatchRows(v, root, Tail(allChunks))

RECURSIVE SelectRows(_, _)
SelectRows(rs, root) ==
    IF rs = <<>> THEN <<>>
    ELSE (IF Head(rs).project_path = root THEN <<Head(rs)>> ELSE <<>>)
            \o SelectRows(Tail(rs), root)

\* A faulty DELETE without its WHERE clause
DeleteEveryRow(rs, root) == <<>>

\* A faulty DELETE that matches no row
DeleteNoRow(rs, root) == rs

\* DELETE FROM code_chunks WHERE project_path = ?
RECURSIVE DeleteWhereProject(_, _)
DeleteWhereProject(rs, root) ==
    IF rs = <<>> THEN <<>>
    ELSE (IF Head(rs).project_path = root THEN <<>> ELSE <<Head(rs)>>)
            \o DeleteWhereProject(Tail(rs), root)

\* a row as search returns it: { embedding: _, ...chunk }
StripEmbedding(row) ==
    [file_path     |-> row.file_path,
     chunk_content |-> row.chunk_content,
     chunk_type    |-> row.chunk_type,
     chunk_name    |-> row.chunk_name,
     start_line    |-> row.start_line,
     end_line      |-> row.end_line,
     project_path  |-> row.project_path]

\* similarity > 0.01
SimilarityFloor == SCALE \div 100
\* A faulty test that lets every similarity through
AnySimilarity(sim) == sim # NAN
AboveFloor(sim) == sim # NAN /\ sim > SimilarityFloor

\* the loop of search over the selected rows: rows without a blob are
\* skipped, the others are scored against the query and kept above the floor
RECURSIVE ScoreRows(_, _)
ScoreRows(q, rs) ==
    IF rs = <<>> THEN <<>>
    ELSE (IF Head(rs).embedding = <<>> THEN <<>>
          ELSE IF AboveFloor(cosineSimilarity(q, [data |-> Head(rs).embedding,
                                                  dim |-> q.dim]))
          THEN <<[chunk |-> StripEmbedding(Head(rs)),
                  similarity |-> cosineSimilarity(q, [data |-> Head(rs).embedding,
                                                      dim |-> q.dim])]>>
          ELSE <<>>)
            \o ScoreRows(q, Tail(rs))

\* results.sort((a, b) => b.similarity - a.similarity): stable, descending
RECURSIVE InsertBySimilarity(_, _)
InsertBySimilarity(r, sorted) ==
    IF sorted = <<>> THEN <<r>>
    ELSE IF Head(sorted).similarity >= r.similarity
    THEN <<Head(sorted)>> \o InsertBySimilarity(r, Tail(sorted))
    ELSE <<r>> \o sorted

\* A faulty sort that leaves the results in the order of the rows
SortSkipped(rs) == rs

RECURSIVE SortBySimilarity(_)
SortBySimilarity(rs) ==
    IF rs = <<>> THEN <<>>
    ELSE InsertBySimilarity(Head(rs), SortBySimilarity(Tail(rs)))

\* Array.prototype.slice(0, limit): a negative limit counts from the end
SliceFromStart(rs, limit) ==
    IF limit < 0
    THEN SubSeq(rs, 1, IF Len(rs) + limit > 0 THEN Len(rs) + limit ELSE 0)
    ELSE SubSeq(rs, 1, MathMin(limit, Len(rs)))

\* the rows search reads: those of the project when a scope is given
ScopedRows(rs, scope) == IF scope = "none" THEN rs ELSE SelectRows(rs, scope)

SearchScored(q, rs, limit) ==
    IF q.dim = 0 THEN <<>>
    ELSE SliceFromStart(SortBySimilarity(ScoreRows(q, rs)), limit)

\* search(query, limit, projectPath) on an instance whose vectorizer is v
search(v, rs, query, limit, scope) ==
    SearchScored(embed(v, query), ScopedRows(rs, scope), limit)

\* A faulty filter that keeps every result of search
FilterSkipped(res, threshold, excludeFile) == res

\* the results findSimilar keeps of those of search
RECURSIVE FilterSimilar(_, _, _)
FilterSimilar(res, threshold, excludeFile) ==
    IF res = <<>> THEN <<>>
    ELSE (IF /\ Head(res).similarity >= threshold
             /\ (excludeFile # "none" => Head(res).chunk.file_path # excludeFile)
          THEN <<Head(res)>> ELSE <<>>)
            \o FilterSimilar(Tail(res), threshold, excludeFile)

FindSimilarLimit == 20

\* findSimilar(code, threshold, excludeFile)
findSimilar(v, rs, code, threshold, excludeFile) ==
    FilterSimilar(search(v, rs, code, FindSimilarLimit, "none"),
                  threshold, excludeFile)

\* getFileChunks(filePath): the rows of the file, without their embeddings
RECURSIVE getFileChunks(_, _)
getFileChunks(rs, filePath) ==
    IF rs = <<>> THEN <<>>
    ELSE (IF Head(rs).file_path = filePath THEN <<StripEmbedding(Head(rs))>>
          ELSE <<>>)
            \o getFileChunks(Tail(rs), filePath)

\* getStats(); the projects are held as a set, DISTINCT gives them no order
getStats(rs) ==
    [totalChunks |-> Len(rs),
     totalFiles  |-> Cardinality({ rs[k].file_path : k \in DOMAIN rs }),
     projects    |-> { rs[k].project_path : k \in DOMAIN rs }]

\* the similarity of two texts as POST /ml/similarity computes it: both are
\* embedded by the vectorizer of the store and the vectors are compared
similarity(v, text1, text2) ==
    cosineSimilarity(embed(v, text1), embed(v, text2))

\* ------------------------------------------------------------------------
\* SemanticSupervisor
\* ------------------------------------------------------------------------

KwTry    == <<"t","r","y">>
KwReturn == <<"r","e","t","u","r","n">>

\* /try\s*\{/.test(s)
HasTryCatch(s) ==
    \E i \in 1..Len(s) :
        /\ StartsWithAt(s, i, KwTry)
        /\ SkipSpaces(s, i + 3) <= Len(s)
        /\ s[SkipSpaces(s, i + 3)] = "{"

\* /kw\s/.test(s)
HasWordSpace(s, kw) ==
    \E i \in 1..Len(s) :
        /\ StartsWithAt(s, i, kw)
        /\ i + Len(kw) <= Len(s)
        /\ s[i + Len(kw)] \in SpaceCh

\* /async\s/.test(s) and /return\s/.test(s)
IsAsync(s) == HasWordSpace(s, KwAsync)
Returns(s) == HasWordSpace(s, KwReturn)

\* detectInconsistency(chunk, similar): the trait the message is about, or
\* "none" for null
detectInconsistency(chunk, top) ==
    IF HasTryCatch(chunk.content) # HasTryCatch(top.chunk.chunk_content)
    THEN "error-handling"
    ELSE IF IsAsync(chunk.content) # IsAsync(top.chunk.chunk_content)
    THEN "async"
    ELSE IF Returns(chunk.content) # Returns(top.chunk.chunk_content)
            /\ chunk.type = "function"
    THEN "return"
    ELSE "none"

PreviewLength == 200

\* a finding of analyzeFile; line is the candidate's start line, trait the
\* trait an inconsistency message is about, and suggestionFile and
\* suggestionLine the location a duplication suggestion names
Finding(rule, trait, filePath, chunk, top) ==
    [rule |-> rule, trait |-> trait, file |-> filePath, line |-> chunk.startLine,
     suggestionFile |-> IF rule = "semantic-duplication"
                        THEN top.chunk.file_path ELSE <<>>,
     suggestionLine |-> IF rule = "semantic-duplication"
                        THEN top.chunk.start_line ELSE 0,
     similarChunk |-> [file |-> top.chunk.file_path,
                       name |-> top.chunk.chunk_name,
                       similarity |-> top.similarity,
                       content |-> Slice(top.chunk.chunk_content, 1,
                                         MathMin(PreviewLength,
                                                 Len(top.chunk.chunk_content)))]]

\* the findings for one chunk whose best match is top
FindingsForTop(cfg, filePath, chunk, top) ==
    IF top.similarity >= cfg.duplicationThreshold
    THEN <<Finding("semantic-duplication", "none", filePath, chunk, top)>>
    ELSE IF /\ top.similarity >= cfg.patternThreshold
            /\ chunk.type = top.chunk.chunk_type
            /\ detectInconsistency(chunk, top) # "none"
    THEN <<Finding("semantic-inconsistency", detectInconsistency(chunk, top),
                   filePath, chunk, top)>>
    ELSE <<>>

FindingsForSimilar(cfg, filePath, chunk, similar) ==
    IF similar = <<>> THEN <<>>
    ELSE FindingsForTop(cfg, filePath, chunk, similar[1])

\* the body of the loop of analyzeFile for one chunk
AnalyzeChunk(v, rs, cfg, filePath, chunk) ==
    IF Len(SplitLines(chunk.content)) < 3 THEN <<>>
    ELSE FindingsForSimilar(cfg, filePath, chunk,
             findSimilar(v, rs, chunk.content, cfg.patternThreshold, filePath))

RECURSIVE AnalyzeChunks(_, _, _, _, _)
AnalyzeChunks(v, rs, cfg, filePath, chunks) ==
    IF chunks = <<>> THEN <<>>
    ELSE AnalyzeChunk(v, rs, cfg, filePath, Head(chunks))
            \o AnalyzeChunks(v, rs, cfg, filePath, Tail(chunks))

\* analyzeFile(content, filePath) of a supervisor configured with cfg
analyzeFile(v, rs, cfg, content, filePath) ==
    AnalyzeChunks(v, rs, cfg, filePath, ChunksOf(content))

\* the root an instance is asked to index: writers of one root on different
\* connections are not assumed (only calls of one instance overlap on a root)
RootOf(s) == IF s = "server" THEN "/ra" ELSE "/rb"

\* indexCodebase(root) is called on the instance of slot c and runs to its
\* first await; dir is what the root holds during the call
StartIndexAt(c, root, dir) ==
    /\ open[StoreOf(c)] /\ ~Busy(StoreOf(c))
    /\ started < MaxIndexCalls
    /\ call[c].pc = "idle"
    /\ c = "server2" => call["server1"].pc # "idle"
    /\ call' = [call EXCEPT ![c] =
                  [IdleCall EXCEPT !.pc = "walk", !.store = StoreOf(c),
                                   !.root = root, !.dir = dir]]
    /\ started' = started + 1
    /\ event' = NoEvent
    /\ UNCHANGED <<rows, vrec, saved, open, vectorizer, corrupted>>
    /\ UNCHANGED <<vecVars, watchVars>>

\* indexCodebase(RootOf(s)) is called on instance s through slot c
StartIndex(c, dir) == StartIndexAt(c, RootOf(StoreOf(c)), dir)

\* the code after the last await up to the DELETE: addDocuments(allContents)
TrainAndGo(c, cl) ==
    /\ vectorizer' = [vectorizer EXCEPT ![cl.store] =
                        addDocuments(vectorizer[cl.store], AllContents(cl.allChunks))]
    /\ call' = [call EXCEPT ![c] = [cl EXCEPT !.pc = "delete"]]

\* walkDir resolves; the code files are filtered and the first is read
WalkDone(c) ==
    /\ call[c].pc = "walk" /\ ~Busy(call[c].store)
    /\ LET codeFiles == CodeFiles(walkDir(call[c].root, call[c].dir))
           cl == [call[c] EXCEPT !.files = codeFiles, !.nfiles = Len(codeFiles),
                                 !.next = 1]
       IN  IF codeFiles = <<>>
           THEN TrainAndGo(c, cl)
           ELSE /\ call' = [call EXCEPT ![c] = [cl EXCEPT !.pc = "read"]]
                /\ UNCHANGED vectorizer
    /\ event' = NoEvent
    /\ UNCHANGED <<rows, vrec, saved, open, started, corrupted>>
    /\ UNCHANGED <<vecVars, watchVars>>

\* readFile of the next code file resolves or rejects; the file is chunked,
\* or skipped when it cannot be read
ReadDone(c) ==
    /\ call[c].pc = "read" /\ ~Busy(call[c].store)
    /\ LET path == call[c].files[call[c].next]
           dir  == walkDir(call[c].root, call[c].dir)
           cl   == IF CanRead(dir, path)
                   THEN [call[c] EXCEPT
                           !.reads = Append(@, <<path, ReadFile(dir, path)>>),
                           !.allChunks = Append(@,
                               [filePath |-> path,
                                chunks |-> ChunksOf(ReadFile(dir, path))]),
                           !.next = @ + 1]
                   ELSE [call[c] EXCEPT !.next = @ + 1]
       IN  IF call[c].next < Len(call[c].files)
           THEN /\ call' = [call EXCEPT ![c] = cl]
                /\ UNCHANGED vectorizer
           ELSE TrainAndGo(c, cl)
    /\ event' = NoEvent
    /\ UNCHANGED <<rows, vrec, saved, open, started, corrupted>>
    /\ UNCHANGED <<vecVars, watchVars>>

\* this.db.prepare("DELETE FROM code_chunks WHERE project_path = ?").run(absPath)
DeleteRows(c) ==
    /\ call[c].pc = "delete"
    /\ rows' = DeleteWhereProject(rows, call[c].root)
    /\ call' = [call EXCEPT ![c].pc = "insert"]
    /\ event' = NoEvent
    /\ UNCHANGED <<vrec, saved, open, vectorizer, started, corrupted>>
    /\ UNCHANGED <<vecVars, watchVars>>

\* insertMany(): the transaction that inserts one row per chunk
InsertRows(c) ==
    /\ call[c].pc = "insert"
    /\ LET new == BatchRows(vectorizer[call[c].store], call[c].root,
                            call[c].allChunks)
       IN  /\ rows' = rows \o new
           /\ call' = [call EXCEPT ![c].pc = "savedel",
                                   ![c].chunksStored = Len(new)]
    /\ event' = NoEvent
    /\ UNCHANGED <<vrec, saved, open, vectorizer, started, corrupted>>
    /\ UNCHANGED <<vecVars, watchVars>>

\* saveVectorizerState: this.db.exec("DELETE FROM vectorizer_state")
SaveDelete(c) ==
    /\ call[c].pc = "savedel"
    /\ vrec' = RecMissing
    /\ saved' = NotSaved
    /\ call' = [call EXCEPT ![c].pc = "saveins"]
    /\ event' = NoEvent
    /\ UNCHANGED <<rows, open, vectorizer, started, corrupted>>
    /\ UNCHANGED <<vecVars, watchVars>>

\* saveVectorizerState: INSERT INTO vectorizer_state (id, state) VALUES (1, ?),
\* and the return of indexCodebase. The INSERT fails on the primary key
\* when another connection has inserted the record meanwhile.
SaveInsert(c) ==
    /\ call[c].pc = "saveins"
    /\ IF vrec.kind = "missing"
       THEN /\ vrec' = serialize(vectorizer[call[c].store])
            /\ saved' = [valid |-> TRUE, v |-> vectorizer[call[c].store]]
            /\ event' = [NoEvent EXCEPT !.kind = "indexReturn",
                           !.store = call[c].store, !.root = call[c].root,
                           !.filesIndexed = call[c].nfiles,
                           !.chunksStored = call[c].chunksStored,
                           !.reads = call[c].reads]
       ELSE /\ UNCHANGED <<vrec, saved>>
            /\ event' = [NoEvent EXCEPT !.kind = "indexThrow",
                           !.store = call[c].store, !.root = call[c].root]
    /\ call' = [call EXCEPT ![c] = IdleCall]
    /\ UNCHANGED <<rows, open, vectorizer, started, corrupted>>
    /\ UNCHANGED <<vecVars, watchVars>>

\* the persisted vectorizer record is damaged while no instance is running
Corrupt(rec) ==
    /\ ~corrupted
    /\ \A s \in Stores : ~open[s]
    /\ corrupted' = TRUE
    /\ vrec' = rec
    /\ saved' = NotSaved
    /\ event' = NoEvent
    /\ UNCHANGED <<rows, open, vectorizer, call, started>>
    /\ UNCHANGED <<vecVars, watchVars>>

\* the last step was a read of the database. A read changes neither the
\* database nor an instance, so a read that follows another reaches no state
\* that the first of them does not reach; reads are taken one at a time.
Observed == event.kind \in {"search", "findSimilar", "analyzeFile",
                         "fileChunks", "stats", "similarity"}

\* A faulty search whose embed learns the tokens of the query
SearchLearning(s, query, limit, scope) ==
    /\ open[s] /\ ~Busy(s)
    /\ ~Observed
    /\ vectorizer' = [vectorizer EXCEPT ![s] = AddDocument(vectorizer[s], query)]
    /\ event' = [NoEvent EXCEPT !.kind = "search", !.store = s, !.root = scope,
                   !.query = query, !.limit = limit,
                   !.results = search(vectorizer'[s], rows, query, limit, scope)]
    /\ UNCHANGED <<rows, vrec, saved, open, call, started, corrupted>>
    /\ UNCHANGED <<vecVars, watchVars>>

\* search(query, limit, projectPath) is called on instance s and returns
Search(s, query, limit, scope) ==
    /\ open[s] /\ ~Busy(s)
    /\ ~Observed
    /\ event' = [NoEvent EXCEPT !.kind = "search", !.store = s, !.root = scope,
                   !.query = query, !.limit = limit,
                   !.results = search(vectorizer[s], rows, query, limit, scope)]
    /\ UNCHANGED <<rows, vrec, saved, open, vectorizer, call, started, corrupted>>
    /\ UNCHANGED <<vecVars, watchVars>>

\* findSimilar(code, threshold, excludeFile) is called on instance s
FindSimilar(s, code, threshold, excludeFile) ==
    /\ open[s] /\ ~Busy(s)
    /\ ~Observed
    /\ event' = [NoEvent EXCEPT !.kind = "findSimilar", !.store = s,
                   !.query = code, !.threshold = threshold,
                   !.exclude = excludeFile,
                   !.results = findSimilar(vectorizer[s], rows, code, threshold,
                                           excludeFile)]
    /\ UNCHANGED <<rows, vrec, saved, open, vectorizer, call, started, corrupted>>
    /\ UNCHANGED <<vecVars, watchVars>>

\* analyzeFile(content, filePath) is called on a supervisor over instance s
AnalyzeFile(s, cfg, content, filePath) ==
    /\ open[s] /\ ~Busy(s)
    /\ ~Observed
    /\ event' = [NoEvent EXCEPT !.kind = "analyzeFile", !.store = s,
                   !.query = content, !.exclude = filePath,
                   !.threshold = cfg.patternThreshold,
                   !.duplication = cfg.duplicationThreshold,
                   !.results = analyzeFile(vectorizer[s], rows, cfg, content,
                                           filePath)]
    /\ UNCHANGED <<rows, vrec, saved, open, vectorizer, call, started, corrupted>>
    /\ UNCHANGED <<vecVars, watchVars>>

\* getFileChunks(filePath) is called on instance s
GetFileChunks(s, filePath) ==
    /\ open[s] /\ ~Busy(s)
    /\ ~Observed
    /\ event' = [NoEvent EXCEPT !.kind = "fileChunks", !.store = s,
                   !.exclude = filePath,
                   !.results = getFileChunks(rows, filePath)]
    /\ UNCHANGED <<rows, vrec, saved, open, vectorizer, call, started, corrupted>>
    /\ UNCHANGED <<vecVars, watchVars>>

\* getStats() is called on instance s
GetStats(s) ==
    /\ open[s] /\ ~Busy(s)
    /\ ~Observed
    /\ event' = [NoEvent EXCEPT !.kind = "stats", !.store = s,
                   !.results = <<getStats(rows)>>]
    /\ UNCHANGED <<rows, vrec, saved, open, vectorizer, call, started, corrupted>>
    /\ UNCHANGED <<vecVars, watchVars>>

\* POST /ml/similarity on the server of instance s: embed, embed and
\* cosineSimilarity
Similarity(s, text1, text2) ==
    /\ open[s] /\ ~Busy(s)
    /\ ~Observed
    /\ event' = [NoEvent EXCEPT !.kind = "similarity", !.store = s,
                   !.query = text1,
                   !.results = <<similarity(vectorizer[s], text1, text2)>>]
    /\ UNCHANGED <<rows, vrec, saved, open, vectorizer, call, started, corrupted>>
    /\ UNCHANGED <<vecVars, watchVars>>

\* ------------------------------------------------------------------------
\* FileWatcher
\* ------------------------------------------------------------------------

TargetDir == "/ra"
WatchedFiles == {"a.ts", "b.ts"}
ChangeTypes == {"add", "change", "unlink"}

\* what readFile gave: the text of the file, or nothing when it rejected
ReadOutcomes == {"text", "undefined"}

\* a FileChange; n is the number of the event among those received, in the
\* place of the timestamp
FileChange(type, path, content, n) ==
    [type |-> type, path |-> path, relativePath |-> relative(TargetDir, path),
     content |-> content, n |-> n]

\* the end of handleChange: the change is buffered and the debounce timer
\* is set anew
BufferChange(change) ==
    /\ changeBuffer' = Append(changeBuffer, change)
    /\ debounceTimer' = "armed"

\* start(): the handlers are registered and "started" is emitted; a
\* FileWatcher is started once
Start ==
    /\ watcher = "null" /\ emitted = <<>>
    /\ watcher' = "watching"
    /\ emitted' = Append(emitted, [event |-> "started", batch |-> <<>>])
    /\ UNCHANGED <<changeBuffer, debounceTimer, reading, received>>
    /\ UNCHANGED <<vecVars, storeVars>>

\* the underlying watcher reports an event and handleChange(type, path)
\* runs up to its await: an unlink has none and is buffered at once
HandleChange(type, file) ==
    /\ watcher = "watching"
    /\ Len(received) < MaxEvents
    /\ received' = Append(received, [type |-> type, path |-> join(TargetDir, file),
                                     n |-> Len(received) + 1])
    /\ IF type = "unlink"
       THEN /\ BufferChange(FileChange(type, join(TargetDir, file), "undefined",
                                       Len(received) + 1))
            /\ UNCHANGED reading
       ELSE /\ reading' = reading \cup {received'[Len(received')]}
            /\ UNCHANGED <<changeBuffer, debounceTimer>>
    /\ UNCHANGED <<watcher, emitted>>
    /\ UNCHANGED <<vecVars, storeVars>>

\* the readFile of a handleChange call resolves or rejects, and the call
\* runs to its end
ReadSettles(r, content) ==
    /\ r \in reading
    /\ reading' = reading \ {r}
    /\ BufferChange(FileChange(r.type, r.path, content, r.n))
    /\ UNCHANGED <<watcher, received, emitted>>
    /\ UNCHANGED <<vecVars, storeVars>>

\* the debounce timer fires: the buffered changes are emitted as one batch
DebounceFires ==
    /\ debounceTimer = "armed"
    /\ debounceTimer' = "fired"
    /\ changeBuffer' = <<>>
    /\ emitted' = Append(emitted, [event |-> "changes", batch |-> changeBuffer])
    /\ UNCHANGED <<watcher, reading, received>>
    /\ UNCHANGED <<vecVars, storeVars>>

\* stop(): the underlying watcher is closed, an armed timer is cleared and
\* "stopped" is emitted; a FileWatcher is stopped once
Stop ==
    /\ \A i \in DOMAIN emitted : emitted[i].event # "stopped"
    /\ watcher' = "null"
    /\ debounceTimer' = IF debounceTimer = "armed" THEN "cleared" ELSE debounceTimer
    /\ emitted' = Append(emitted, [event |-> "stopped", batch |-> <<>>])
    /\ UNCHANGED <<changeBuffer, reading, received>>
    /\ UNCHANGED <<vecVars, storeVars>>

WatchNext ==
    \/ Start
    \/ \E type \in ChangeTypes, file \in WatchedFiles : HandleChange(type, file)
    \/ \E r \in reading, content \in ReadOutcomes : ReadSettles(r, content)
    \/ DebounceFires
    \/ Stop
SpecWatch == Init /\ [][WatchNext]_vars

StoreNext ==
    \/ \E s \in Stores : Open(s)
    \/ \E s \in Stores : Exit(s)
    \/ \E c \in CallIds, dir \in Dirs : StartIndex(c, dir)
    \/ \E c \in CallIds : WalkDone(c)
    \/ \E c \in CallIds : ReadDone(c)
    \/ \E c \in CallIds : DeleteRows(c)
    \/ \E c \in CallIds : InsertRows(c)
    \/ \E c \in CallIds : SaveDelete(c)
    \/ \E c \in CallIds : SaveInsert(c)
    \/ \E rec \in DamagedRecords : Corrupt(rec)

VecNext ==
    \/ \E docs \in SeqsUpTo(Texts, MaxBatch) : VAddDocuments(docs)
    \/ \E text \in Texts : VEmbed(text)
    \/ VRoundTrip

\* the SemanticStore instances on one database
Spec == Init /\ [][StoreNext]_vars

\* a TfIdfVectorizer used on its own
SpecVec == Init /\ [][VecNext]_vars

\* the instances on one database, indexing their roots and being searched
Limits == {0 - 1, 1}
Scopes == Roots \cup {"none"}
SearchDirs == {DirEmpty, DirTwo}
IndexNext ==
    \/ \E s \in Stores : Open(s)
    \/ \E c \in CallIds, dir \in SearchDirs : StartIndex(c, dir)
    \/ \E c \in CallIds : WalkDone(c)
    \/ \E c \in CallIds : ReadDone(c)
    \/ \E c \in CallIds : DeleteRows(c)
    \/ \E c \in CallIds : InsertRows(c)
    \/ \E c \in CallIds : SaveDelete(c)
    \/ \E c \in CallIds : SaveInsert(c)
SearchNext ==
    \/ IndexNext
    \/ \E s \in Stores, query \in Queries, limit \in Limits, scope \in Scopes :
          Search(s, query, limit, scope)
SpecSearch == Init /\ [][SearchNext]_vars

\* a project of two code files, and the supervisors over the instances
DirPair == <<File("a.ts", ".ts", TRUE, SrcGetName),
             File("b.ts", ".ts", TRUE, SrcRepo)>>
Config(d, p) == [duplicationThreshold |-> d, patternThreshold |-> p]
DefaultConfig == Config((7 * SCALE) \div 10, (5 * SCALE) \div 10)
Configs == {DefaultConfig,
            Config(SCALE, SCALE \div 10),
            Config(SCALE \div 10, (5 * SCALE) \div 10)}
Thresholds == {0, SCALE \div 10, (5 * SCALE) \div 10}
FilePaths == {"a.ts", "new.ts"}
\* the texts given to findSimilar: the chunks of the files analyzed
Codes == UNION { ChunkContents(ChunksOf(src)) : src \in Candidates }
AnalyzeNext ==
    \/ \E s \in Stores : Open(s)
    \/ \E c \in CallIds : StartIndex(c, DirPair)
    \/ \E c \in CallIds : WalkDone(c)
    \/ \E c \in CallIds : ReadDone(c)
    \/ \E c \in CallIds : DeleteRows(c)
    \/ \E c \in CallIds : InsertRows(c)
    \/ \E c \in CallIds : SaveDelete(c)
    \/ \E c \in CallIds : SaveInsert(c)
    \/ \E s \in Stores, code \in Codes, threshold \in Thresholds,
          excludeFile \in FilePaths \cup {"none"} :
          FindSimilar(s, code, threshold, excludeFile)
    \/ \E s \in Stores, cfg \in Configs, content \in Candidates,
          filePath \in FilePaths :
          AnalyzeFile(s, cfg, content, filePath)
SpecAnalyze == Init /\ [][AnalyzeNext]_vars

\* two connections that index the same root
SharedDirs == {DirOne, DirTwo}
SharedNext ==
    \/ \E s \in Stores : Open(s)
    \/ \E c \in CallIds, dir \in SharedDirs : StartIndexAt(c, "/ra", dir)
    \/ \E c \in CallIds : WalkDone(c)
    \/ \E c \in CallIds : ReadDone(c)
    \/ \E c \in CallIds : DeleteRows(c)
    \/ \E c \in CallIds : InsertRows(c)
    \/ \E c \in CallIds : SaveDelete(c)
    \/ \E c \in CallIds : SaveInsert(c)
SpecShared == Init /\ [][SharedNext]_vars

\* one project with more chunks in one file than findSimilar asks search for
ManyCodes == {LnClassGet, LnClassSet}
ManyThresholds == {SCALE \div 10, (5 * SCALE) \div 10}
ManyNext ==
    \/ \E s \in Stores : Open(s)
    \/ \E c \in CallIds : started = 0 /\ StartIndexAt(c, "/ra", DirMany)
    \/ \E c \in CallIds : WalkDone(c)
    \/ \E c \in CallIds : ReadDone(c)
    \/ \E c \in CallIds : DeleteRows(c)
    \/ \E c \in CallIds : InsertRows(c)
    \/ \E c \in CallIds : SaveDelete(c)
    \/ \E c \in CallIds : SaveInsert(c)
    \/ \E s \in Stores, code \in ManyCodes, threshold \in ManyThresholds,
          excludeFile \in {"a.ts", "b.ts", "none"} :
          FindSimilar(s, code, threshold, excludeFile)
SpecMany == Init /\ [][ManyNext]_vars

\* the operations that read, between the steps of the indexing of two
\* projects
ReadsDirs == {DirOne, DirTwo}
ReadsNext ==
    \/ \E s \in Stores : Open(s)
    \/ \E c \in CallIds, dir \in ReadsDirs : StartIndex(c, dir)
    \/ \E c \in CallIds : WalkDone(c)
    \/ \E c \in CallIds : ReadDone(c)
    \/ \E c \in CallIds : DeleteRows(c)
    \/ \E c \in CallIds : InsertRows(c)
    \/ \E c \in CallIds : SaveDelete(c)
    \/ \E c \in CallIds : SaveInsert(c)
    \/ \E s \in Stores, query \in Queries : Search(s, query, 1, "none")
    \/ \E s \in Stores, code \in Queries :
          FindSimilar(s, code, SCALE \div 10, "none")
    \/ \E s \in Stores : AnalyzeFile(s, DefaultConfig, SrcGetName, "new.ts")
    \/ \E s \in Stores, filePath \in FilePaths : GetFileChunks(s, filePath)
    \/ \E s \in Stores : GetStats(s)
    \/ \E s \in Stores, text1 \in Queries, text2 \in Queries :
          Similarity(s, text1, text2)
SpecReads == Init /\ [][ReadsNext]_vars

\* chunkCode on its own
ChunkNext ==
    /\ lastOp = NoOp
    /\ \/ \E lines \in SeqsUpTo(Lines, MaxLines) : VChunkCode(lines)
       \/ \E lines \in SeqsUpTo(BlockLines, MaxBlockLines) : VChunkCode(lines)
SpecChunk == Init /\ [][ChunkNext]_vars

\* cosineSimilarity on its own
CosNext ==
    /\ lastOp = NoOp
    /\ \E a \in EmbeddedVectors, b \in Vectors : VCosine(a, b)
SpecCos == Init /\ [][CosNext]_vars

\* ------------------------------------------------------------------------
\* Properties of the vectorizer
\* ------------------------------------------------------------------------

TokensOf(text) == Range(TokensOfText(text))
AllTokens == UNION { TokensOf(t) : t \in Texts }
DfOf(v, t) == IF MapHas(v.df, t) THEN MapGet(v.df, t) ELSE 0

\* the tokens of a batch in the order addDocuments meets them
RECURSIVE TokenStream(_)
TokenStream(docs) ==
    IF docs = <<>> THEN <<>> ELSE TokensOfText(Head(docs)) \o TokenStream(Tail(docs))
FirstPos(stream, t) ==
    CHOOSE i \in DOMAIN stream :
        stream[i] = t /\ \A j \in 1..(i - 1) : stream[j] # t

\* C3: addDocuments over a sequence of documents adds the number of
\* documents to totalDocs (documents without tokens included), adds to df[t]
\* the number of documents of the sequence that contain t (once per
\* document), leaves every token of every document in the vocabulary with
\* an index below vocabSize, and numbers the new tokens in first-seen order.
C3_AddDocuments ==
    [][ lastOp'.op = "addDocuments" /\ vars' # vars =>
        LET D      == lastOp'.docs
            stream == TokenStream(D)
            new    == Range(stream) \ MapKeys(vz.vocab)
        IN  /\ vz'.totalDocs = vz.totalDocs + Len(D)
            /\ \A t \in AllTokens :
                 DfOf(vz', t) = DfOf(vz, t)
                     + Cardinality({ i \in DOMAIN D : t \in TokensOf(D[i]) })
            /\ \A t \in Range(stream) :
                 /\ MapHas(vz'.vocab, t)
                 /\ MapGet(vz'.vocab, t) < vocabSize(vz')
            /\ \A t \in new : MapGet(vz'.vocab, t) >= vocabSize(vz)
            /\ \A t, u \in new :
                 FirstPos(stream, t) < FirstPos(stream, u)
                   => MapGet(vz'.vocab, t) < MapGet(vz'.vocab, u)
      ]_vars

\* a batch of two documents, one without tokens and one repeating a token,
\* has been added to a vectorizer that already knew a token
C3_Witness ==
    /\ lastOp.op = "addDocuments"
    /\ lastOp.docs = <<TxNoTokens, TxGetGet>>
    /\ vz.totalDocs = 3
    /\ vocabSize(vz) = 2

VocabDense(v) ==
    /\ Cardinality(MapKeys(v.vocab)) = MapSize(v.vocab)
    /\ { MapGet(v.vocab, t) : t \in MapKeys(v.vocab) } = 0..(MapSize(v.vocab) - 1)

\* C4: the vocabulary's indices are exactly 0..vocabSize-1, one token per
\* index, and no step changes or removes the index of a token, so
\* vocabSize never decreases.
C4_VocabularyDenseStable ==
    /\ [] VocabDense(vz)
    /\ [][ /\ \A t \in MapKeys(vz.vocab) :
                MapHas(vz'.vocab, t) /\ MapGet(vz'.vocab, t) = MapGet(vz.vocab, t)
           /\ vocabSize(vz') >= vocabSize(vz) ]_vars

\* the vocabulary has grown over two addDocuments calls
C4_Witness ==
    /\ lastOp.op = "addDocuments"
    /\ vocabSize(vz) >= 4
    /\ Len(lastOp.docs) < vz.totalDocs

DfBounded(v) ==
    /\ \A t \in MapKeys(v.df) : 1 <= MapGet(v.df, t) /\ MapGet(v.df, t) <= v.totalDocs
    /\ MapKeys(v.df) = MapKeys(v.vocab)

\* C5: for every token 1 <= df[t] <= totalDocs, the tokens with a df entry
\* are the tokens of the vocabulary, and neither totalDocs nor any df[t]
\* decreases in a step.
C5_DfBoundedMonotone ==
    /\ [] DfBounded(vz)
    /\ [][ /\ vz'.totalDocs >= vz.totalDocs
           /\ \A t \in MapKeys(vz.df) : DfOf(vz', t) >= DfOf(vz, t) ]_vars

\* a token is in every document seen, another is not
C5_Witness ==
    /\ vz.totalDocs = 3
    /\ \E t \in MapKeys(vz.df) : MapGet(vz.df, t) = 3
    /\ \E t \in MapKeys(vz.df) : MapGet(vz.df, t) = 1

\* C6: deserialize(serialize(v)) has the vocabulary mapping, the df table
\* and the totalDocs of v, and embeds every text as v does.
C6_SerializeRoundTrip ==
    lastOp.op = "roundtrip" =>
        /\ lastOp.made.vocab = vz.vocab
        /\ lastOp.made.df = vz.df
        /\ lastOp.made.totalDocs = vz.totalDocs
        /\ \A text \in Texts : embed(lastOp.made, text) = embed(vz, text)

\* a trained vectorizer has gone through serialize and deserialize
C6_Witness ==
    /\ lastOp.op = "roundtrip"
    /\ vz.totalDocs >= 2
    /\ vocabSize(vz) >= 3
    /\ \E t \in MapKeys(vz.df) : MapGet(vz.df, t) >= 2

\* C9: embed returns a vector whose length and dim are the vocabulary size
\* at the call, the zero-dimension vector when the vocabulary is empty.
C9_EmbedDimension ==
    lastOp.op = "embed" =>
        /\ Len(lastOp.out.data) = vocabSize(vz)
        /\ lastOp.out.dim = vocabSize(vz)
        /\ vocabSize(vz) = 0 => lastOp.out = NoVector

\* a text of two tokens has been embedded under a vocabulary of four or
\* more tokens
C9_Witness ==
    /\ lastOp.op = "embed"
    /\ lastOp.text = TxGetUser
    /\ vocabSize(vz) >= 4

\* a text with tokens has been embedded under a vocabulary left empty by
\* training on a document without tokens
C9_WitnessEmpty ==
    /\ lastOp.op = "embed"
    /\ lastOp.text = TxGetUser
    /\ vocabSize(vz) = 0
    /\ vz.totalDocs >= 1

\* the squared Euclidean norm is 1 up to the rounding of the arithmetic
NormTolerance == (SCALE * SCALE) \div 100
NormIsOne(data) ==
    /\ SumSquares(data) >= SCALE * SCALE - NormTolerance
    /\ SumSquares(data) <= SCALE * SCALE + NormTolerance

\* C10: for a vectorizer trained on at least one document, embed(text) is
\* the all-zero vector of vocabulary length when no token of the text is in
\* the vocabulary, and otherwise has norm 1 and is non-zero exactly at the
\* indices of the text's tokens that are in the vocabulary.
C10_EmbedNormalized ==
    lastOp.op = "embed" /\ vz.totalDocs >= 1 =>
        LET known == TokensOf(lastOp.text) \cap MapKeys(vz.vocab)
            data  == lastOp.out.data
        IN  /\ Len(data) = vocabSize(vz)
            /\ known = {} => \A i \in DOMAIN data : data[i] = 0
            /\ known # {} =>
                 /\ NormIsOne(data)
                 /\ \A i \in DOMAIN data :
                      data[i] # 0 <=> \E t \in known : MapGet(vz.vocab, t) = i - 1

\* a text with one known and two unknown tokens has been embedded
C10_Witness ==
    /\ lastOp.op = "embed"
    /\ lastOp.text = TxUserStr
    /\ vz.totalDocs >= 2
    /\ vocabSize(vz) = 2
    /\ \E i \in DOMAIN lastOp.out.data : lastOp.out.data[i] = 0
    /\ \E i \in DOMAIN lastOp.out.data : lastOp.out.data[i] # 0

\* the sum of the products of the first n components
RECURSIVE PrefixDot(_, _, _)
PrefixDot(x, y, n) ==
    IF n = 0 THEN 0 ELSE PrefixDot(x, y, n - 1) + x[n] * y[n]

RECURSIVE RowsOfReads(_, _, _)
RowsOfReads(v, root, reads) ==
    IF reads = <<>> THEN <<>>
    ELSE FileRows(v, root, relative(root, Head(reads)[1]),
                  chunkCode(Head(reads)[2]))
            \o RowsOfReads(v, root, Tail(reads))

\* C1: when indexCodebase(root) returns, the rows tagged with root are
\* exactly one row per chunk of the code files the call read, none is left
\* from an earlier index of the root, and chunksStored is their number.
C1_FullRefresh ==
    event.kind = "indexReturn" =>
        LET expected == RowsOfReads(vectorizer[event.store], event.root, event.reads)
        IN  /\ SelectRows(rows, event.root) = expected
            /\ event.chunksStored = Len(expected)

\* a root that held two rows is indexed again by the same instance, now
\* with one chunk, and the call has returned
C1_Witness ==
    /\ event.kind = "indexReturn" /\ event.root = "/ra"
    /\ event.chunksStored = 1
    /\ vectorizer["server"].totalDocs = 3
    /\ SelectRows(rows, "/rb") = <<>>
    /\ Len(SelectRows(rows, "/ra")) = 1

\* C2: the rows of a root only ever change from one complete batch to the
\* next in a single step: a step that changes them leaves exactly the batch
\* of a call that is replacing them, so the root is never seen with the old
\* rows deleted and the new batch missing.
C2_AtomicReplace ==
    [][ \A r \in Roots :
          SelectRows(rows', r) # SelectRows(rows, r) =>
            \E c \in CallIds :
              /\ call[c].root = r
              /\ call[c].pc \in {"delete", "insert"}
              /\ SelectRows(rows', r) =
                   BatchRows(vectorizer[call[c].store], r, call[c].allChunks) ]_vars

\* C7: when indexCodebase returns, the persisted record is the serialization
\* of the in-memory vectorizer; and a store opened while that record is in
\* place has the vocabulary, df table and totalDocs that were saved.
C7_PersistenceAcrossRestart ==
    /\ event.kind = "indexReturn" => vrec = serialize(vectorizer[event.store])
    /\ event.kind = "open" /\ saved.valid =>
         /\ vectorizer[event.store].vocab = saved.v.vocab
         /\ vectorizer[event.store].df = saved.v.df
         /\ vectorizer[event.store].totalDocs = saved.v.totalDocs

\* a record of the shape {vocab, df, totalDocs}
ExpectedShape(rec) ==
    /\ rec.kind = "obj"
    /\ rec.vocab.k = "arr"
    /\ rec.df.k = "arr"
    /\ IsNumber(rec.totalDocs)

\* C8: a store opened on a missing or corrupt record starts with an empty
\* vocabulary, an empty df table and totalDocs = 0.
C8_CorruptStartsEmpty ==
    event.kind = "open" /\ ~ExpectedShape(event.rec) =>
        vectorizer[event.store] = NewVectorizer

\* ------------------------------------------------------------------------
\* Properties of search
\* ------------------------------------------------------------------------

\* the similarity of a stored row to the embedded query q
RowSimilarity(q, row) ==
    cosineSimilarity(q, [data |-> row.embedding, dim |-> q.dim])

NonIncreasing(res) ==
    \A i, j \in DOMAIN res : i < j => res[i].similarity >= res[j].similarity

ReturnedChunks(res) == { res[i].chunk : i \in DOMAIN res }

\* no row of rs that is left out of res is above the floor and above a
\* returned result
TopOnes(res, q, rs) ==
    \A k \in DOMAIN rs :
        (StripEmbedding(rs[k]) \notin ReturnedChunks(res)
           /\ AboveFloor(RowSimilarity(q, rs[k])))
        => \A i \in DOMAIN res : RowSimilarity(q, rs[k]) <= res[i].similarity

SearchContract(res, q, rs, limit, scope) ==
    /\ Len(res) <= limit
    /\ NonIncreasing(res)
    /\ \A i \in DOMAIN res :
          /\ res[i].similarity > SimilarityFloor
          /\ scope # "none" => res[i].chunk.project_path = scope
    /\ TopOnes(res, q, rs)

\* C12: search(query, limit, scope) returns at most limit results, in
\* non-increasing order of similarity, each above the floor 0.01 and tagged
\* with the scope when one is given, and no stored chunk in scope that is
\* left out is above the floor and more similar than a returned one.
C12_SearchTopLimit ==
    event.kind = "search" =>
        SearchContract(event.results,
                       embed(vectorizer[event.store], event.query),
                       ScopedRows(rows, event.root), event.limit, event.root)

\* the number of rows of rs that are above the floor
AboveFloorCount(q, rs) ==
    Cardinality({ k \in DOMAIN rs : AboveFloor(RowSimilarity(q, rs[k])) })

\* what slice(0, limit) keeps of n ranked results
KeptCount(n, limit) ==
    IF limit >= 0 THEN (IF limit <= n THEN limit ELSE n)
    ELSE (IF n + limit > 0 THEN n + limit ELSE 0)

\* C12, amended: the results are in non-increasing order of similarity, each
\* above the floor and tagged with the scope when one is given, and they are
\* the top ones; there are at most limit of them when limit >= 0, and when
\* limit is negative they are the ranked results without the last -limit.
C12_SearchRanked ==
    event.kind = "search" =>
        /\ SearchContract(event.results,
                          embed(vectorizer[event.store], event.query),
                          ScopedRows(rows, event.root),
                          IF event.limit >= 0 THEN event.limit
                          ELSE Len(event.results),
                          event.root)
        /\ Len(event.results) =
             KeptCount(AboveFloorCount(embed(vectorizer[event.store], event.query),
                                       ScopedRows(rows, event.root)),
                       event.limit)

\* a search that had to truncate: two chunks are above the floor, with
\* different similarities, and the limit is 1
C12_Witness ==
    /\ event.kind = "search" /\ event.limit = 1
    /\ Len(event.results) = 1
    /\ \E k \in DOMAIN rows :
          LET sim == RowSimilarity(embed(vectorizer[event.store], event.query),
                                   rows[k])
          IN  AboveFloor(sim) /\ sim < event.results[1].similarity

\* no token of the text is in the vocabulary of v
NoKnownToken(v, text) ==
    \A i \in DOMAIN TokensOfText(text) :
        MapGet(v.vocab, TokensOfText(text)[i]) = UNDEFINED

\* C13: search returns an empty sequence when the query has no tokens, when
\* none of its tokens is in the vocabulary, when the vocabulary is empty or
\* when there is no chunk to read; and indexCodebase of an empty directory
\* returns {filesIndexed: 0, chunksStored: 0} and leaves the root without
\* chunks, so that a search scoped to it is empty.
C13_EmptySearch ==
    /\ [](event.kind = "search" =>
            ((\/ TokensOfText(event.query) = <<>>
              \/ NoKnownToken(vectorizer[event.store], event.query)
              \/ MapSize(vectorizer[event.store].vocab) = 0
              \/ ScopedRows(rows, event.root) = <<>>)
             => event.results = <<>>))
    /\ [][ \A c \in CallIds :
             (call[c].pc = "saveins" /\ call'[c].pc = "idle"
                /\ call[c].dir = DirEmpty /\ event'.kind = "indexReturn")
             => /\ event'.filesIndexed = 0
                /\ event'.chunksStored = 0
                /\ SelectRows(rows', call[c].root) = <<>> ]_vars

\* a query whose only token is not in the vocabulary is searched for while
\* chunks are stored
C13_Witness ==
    /\ event.kind = "search" /\ event.query = TxNovel /\ event.limit = 1
    /\ MapSize(vectorizer[event.store].vocab) > 0
    /\ ScopedRows(rows, event.root) # <<>>
    /\ event.results = <<>>

\* ------------------------------------------------------------------------
\* Properties of findSimilar and of the supervisor
\* ------------------------------------------------------------------------

\* C14: every result of findSimilar(code, threshold, excludeFile) has a
\* similarity >= threshold and a file path other than excludeFile, and the
\* results are in non-increasing order of similarity.
C14_FindSimilar ==
    event.kind = "findSimilar" =>
        /\ \A i \in DOMAIN event.results :
              /\ event.results[i].similarity >= event.threshold
              /\ event.results[i].chunk.file_path # event.exclude
        /\ NonIncreasing(event.results)

\* findSimilar returned a chunk of another file while a chunk of the
\* excluded file was at least as similar as the threshold asks
C14_Witness ==
    /\ event.kind = "findSimilar" /\ event.exclude = "a.ts"
    /\ event.threshold > 0
    /\ event.results # <<>>
    /\ \E k \in DOMAIN rows :
          /\ rows[k].file_path = "a.ts"
          /\ RowSimilarity(embed(vectorizer[event.store], event.query), rows[k])
                >= event.threshold

\* the chunks of a file that analyzeFile compares: those of 3 lines or more
IsCandidate(chunk) == Len(SplitLines(chunk.content)) >= 3

\* the rows of other files than filePath
OutsideRows(rs, filePath) == { k \in DOMAIN rs : rs[k].file_path # filePath }

\* the rows of other files that no row of another file is more similar than
MostSimilarOutside(q, rs, filePath) ==
    { k \in OutsideRows(rs, filePath) :
        /\ RowSimilarity(q, rs[k]) # NAN
        /\ \A j \in OutsideRows(rs, filePath) :
              RowSimilarity(q, rs[j]) <= RowSimilarity(q, rs[k]) }

FindingsAtLine(findings, line) ==
    { i \in DOMAIN findings : findings[i].line = line }

\* finding f is a duplication finding that refers to row
RefersTo(f, row) ==
    /\ f.rule = "semantic-duplication"
    /\ f.similarChunk.file = row.file_path
    /\ f.suggestionFile = row.file_path
    /\ f.suggestionLine = row.start_line
    /\ Len(f.similarChunk.content) <= PreviewLength
    /\ f.similarChunk.content =
         SubSeq(row.chunk_content, 1, Len(f.similarChunk.content))

DuplicationReported(findings, chunk, q, rs, filePath, duplicationThreshold) ==
    (\E k \in MostSimilarOutside(q, rs, filePath) :
        RowSimilarity(q, rs[k]) >= duplicationThreshold)
    => /\ Cardinality(FindingsAtLine(findings, chunk.startLine)) = 1
       /\ \E i \in FindingsAtLine(findings, chunk.startLine),
             k \in MostSimilarOutside(q, rs, filePath) :
             RefersTo(findings[i], rs[k])

\* C17: for every configuration of the two thresholds and every candidate
\* chunk of at least 3 lines, when the most similar stored chunk outside the
\* candidate's file has similarity >= duplicationThreshold, analyzeFile has
\* exactly one finding for the candidate; it is a semantic-duplication
\* finding that names that chunk's file path and start line and carries at
\* most 200 characters of its content.
C17_DuplicationFinding ==
    event.kind = "analyzeFile" =>
        \A n \in DOMAIN ChunksOf(event.query) :
            IsCandidate(ChunksOf(event.query)[n]) =>
                DuplicationReported(event.results, ChunksOf(event.query)[n],
                    embed(vectorizer[event.store],
                          ChunksOf(event.query)[n].content),
                    rows, event.exclude, event.duplication)

\* whether one of the three traits differs between the two texts
TraitDiffers(a, b) ==
    \/ HasTryCatch(a) # HasTryCatch(b)
    \/ IsAsync(a) # IsAsync(b)
    \/ Returns(a) # Returns(b)

FirstDifferingTrait(a, b) ==
    IF HasTryCatch(a) # HasTryCatch(b) THEN "error-handling"
    ELSE IF IsAsync(a) # IsAsync(b) THEN "async"
    ELSE IF Returns(a) # Returns(b) THEN "return"
    ELSE "none"

\* top is the best match of chunk, of medium similarity and of its type
MediumMatch(chunk, top, patternThreshold, duplicationThreshold) ==
    /\ top.similarity >= patternThreshold
    /\ top.similarity < duplicationThreshold
    /\ top.chunk.chunk_type = chunk.type

InconsistencyReported(findings, chunk, top) ==
    /\ (\E i \in FindingsAtLine(findings, chunk.startLine) :
           findings[i].rule = "semantic-inconsistency")
        <=> TraitDiffers(chunk.content, top.chunk.chunk_content)
    /\ \A i \in FindingsAtLine(findings, chunk.startLine) :
          /\ findings[i].rule = "semantic-inconsistency"
          /\ findings[i].trait =
               FirstDifferingTrait(chunk.content, top.chunk.chunk_content)

MediumChecked(findings, chunk, similar, patternThreshold, duplicationThreshold) ==
    (similar # <<>>
       /\ MediumMatch(chunk, similar[1], patternThreshold, duplicationThreshold))
    => InconsistencyReported(findings, chunk, similar[1])

\* C18: for a candidate chunk whose top match has patternThreshold <=
\* similarity < duplicationThreshold and the same type, analyzeFile has an
\* inconsistency finding exactly when one of the three traits (try block,
\* async, return) differs between the two texts, and the finding is about
\* the first trait that differs, in that order; and no candidate chunk has
\* more than one finding.
C18_InconsistencyFinding ==
    event.kind = "analyzeFile" =>
        \A n \in DOMAIN ChunksOf(event.query) :
            /\ Cardinality(FindingsAtLine(event.results,
                                          ChunksOf(event.query)[n].startLine)) <= 1
            /\ IsCandidate(ChunksOf(event.query)[n]) =>
                  MediumChecked(event.results, ChunksOf(event.query)[n],
                      findSimilar(vectorizer[event.store], rows,
                                  ChunksOf(event.query)[n].content,
                                  event.threshold, event.exclude),
                      event.threshold, event.duplication)

\* ------------------------------------------------------------------------
\* Properties of indexCodebase and of chunkCode
\* ------------------------------------------------------------------------

\* the number of chunks of the files that were read
RECURSIVE ChunksOfReads(_)
ChunksOfReads(reads) ==
    IF reads = <<>> THEN 0
    ELSE Len(ChunksOf(Head(reads)[2])) + ChunksOfReads(Tail(reads))

\* C15: a code file that cannot be read is skipped and the files that can be
\* read are still stored, and the skipped file is not counted: filesIndexed
\* is the number of code files that were read and chunked.
C15_UnreadableNotCounted ==
    event.kind = "indexReturn" =>
        /\ event.chunksStored = ChunksOfReads(event.reads)
        /\ event.filesIndexed = Len(event.reads)

LineRangeOk(chunk, source) ==
    /\ 1 <= chunk.startLine
    /\ chunk.startLine <= chunk.endLine
    /\ chunk.endLine <= Len(SplitLines(source))

\* C16: the chunks chunkCode returns, the import chunk included, have line
\* ranges within the text, pairwise disjoint, and they are returned in
\* strictly increasing order of start line.
C16_ChunksDisjointOrdered ==
    lastOp.op = "chunkCode" =>
        /\ \A i \in DOMAIN lastOp.chunks :
              LineRangeOk(lastOp.chunks[i], lastOp.source)
        /\ \A i, j \in DOMAIN lastOp.chunks :
              i < j => lastOp.chunks[i].endLine < lastOp.chunks[j].startLine

\* ------------------------------------------------------------------------
\* Properties of concurrent calls
\* ------------------------------------------------------------------------

\* instance s can run a search: it is open and not inside a synchronous
\* section of one of its own calls
Searchable(s) == open[s] /\ ~Busy(s)

\* the root of the indexCodebase call in slot c that takes the step
SteppingRoot(c) == IF call[c].pc = "idle" THEN call'[c].root ELSE call[c].root

\* C19: a step of an indexCodebase call on root B neither inserts, deletes
\* nor changes a row tagged with another root A, and every search scoped to
\* A that an instance can run before the step returns the same results
\* (same chunks, similarities and order) when run after it: a search of A
\* does not see whether an index of B is in progress.
C19_NoCrossRootInterference ==
    [][ \A c \in CallIds :
          call'[c] # call[c] =>
            \A A \in Roots \ {SteppingRoot(c)} :
              /\ SelectRows(rows', A) = SelectRows(rows, A)
              /\ \A s \in Stores :
                    (Searchable(s) /\ Searchable(s)') =>
                      \A query \in Queries, limit \in Limits \cup {Len(rows)} :
                        search(vectorizer'[s], rows', query, limit, A)
                          = search(vectorizer[s], rows, query, limit, A) ]_vars

\* root /ra is searched on the server, with results, while the index of
\* /rb on the other connection has deleted the rows of /rb and has not yet
\* returned
C19_Witness ==
    /\ event.kind = "search" /\ event.root = "/ra" /\ event.store = "server"
    /\ event.results # <<>>
    /\ call["cli1"].root = "/rb"
    /\ call["cli1"].pc \in {"insert", "savedel", "saveins"}
    /\ call["cli1"].allChunks # <<>>

\* the number of chunks of the files a call has chunked
RECURSIVE ChunkCount(_)
ChunkCount(allChunks) ==
    IF allChunks = <<>> THEN 0
    ELSE Len(Head(allChunks).chunks) + ChunkCount(Tail(allChunks))

\* the call in slot c runs its inserts
Inserts(c) == call[c].pc = "insert" /\ call'[c].pc = "savedel"

IsPrefixOf(a, b) == Len(a) <= Len(b) /\ SubSeq(b, 1, Len(a)) = a

\* the df table of w counts every token at least as often as that of v
DfGrows(v, w) ==
    \A i \in DOMAIN v.df :
        /\ MapHas(w.df, v.df[i][1])
        /\ MapGet(w.df, v.df[i][1]) >= v.df[i][2]

\* the call in slot c takes a step and its process goes on
IndexStep(c) == call'[c] # call[c] /\ call[c].pc # "idle" /\ open'[call[c].store]

\* the step of the call in slot c is the one that runs addDocuments
Trains(c) == call[c].pc \in {"walk", "read"} /\ call'[c].pc = "delete"

\* C21: no step of an indexCodebase call resets or shrinks the vectorizer:
\* the vocabulary and the df table only grow, totalDocs grows by the number
\* of chunks of the call's batch in the step that trains and is unchanged in
\* every other step, and the DELETE removes the rows of the call's root only.
C21_VectorizerOnlyGrows ==
    [][ \A c \in CallIds :
          IndexStep(c) =>
            /\ IsPrefixOf(vectorizer[call[c].store].vocab,
                          vectorizer'[call[c].store].vocab)
            /\ DfGrows(vectorizer[call[c].store], vectorizer'[call[c].store])
            /\ vectorizer'[call[c].store].totalDocs =
                 vectorizer[call[c].store].totalDocs
                   + (IF Trains(c) THEN ChunkCount(call'[c].allChunks) ELSE 0)
            /\ \A r \in Roots \ {call[c].root} :
                  SelectRows(rows', r) = SelectRows(rows, r) ]_vars

\* ------------------------------------------------------------------------
\* Properties of the line ranges of chunks
\* ------------------------------------------------------------------------

\* the lines of the text chunkCode was called on
SourceLines == SplitLines(lastOp.source)

\* the chunk was started by a construct with a block
BlockStarted(chunk) == chunk.type \in {"type", "class", "function", "export"}

\* the number of characters c among the first n of line l
CountIn(l, n, c) == Cardinality({ k \in 1..n : l[k] = c })

\* "{" minus "}" over the lines from s up to character n of line i
Balance(lines, s, i, n) ==
    LET before == [j \in s..(i - 1) |->
                      CountIn(lines[j], Len(lines[j]), "{")
                        - CountIn(lines[j], Len(lines[j]), "}")]
        Sum[j \in (s - 1)..(i - 1)] ==
            IF j < s THEN 0 ELSE Sum[j - 1] + before[j]
    IN  Sum[i - 1] + CountIn(lines[i], n, "{") - CountIn(lines[i], n, "}")

\* the positions of the lines, from the start of line s on, in text order
Earlier(i, n, j, m) == i < j \/ (i = j /\ n < m)

\* on line i the count from line s returns to zero after having been positive
BalancedOn(lines, s, i) ==
    \E n \in 1..Len(lines[i]) :
        /\ Balance(lines, s, i, n) = 0
        /\ \E j \in s..i : \E m \in 1..Len(lines[j]) :
              Earlier(j, m, i, n) /\ Balance(lines, s, j, m) > 0

BalancedLines(lines, s) == { i \in s..Len(lines) : BalancedOn(lines, s, i) }

Least(S) == CHOOSE x \in S : \A y \in S : x <= y

\* a function whose body holds one nested block, over five lines
NestedFunction == <<LnFunction, LnIf, LnConst, LnClose, LnClose>>

\* C22: a chunk started at line s by a construct with a block ends on the
\* first line, at or after s, on which the count of "{" minus "}" from the
\* start of line s returns to zero after having been positive, at any depth
\* of nesting; the five-line function with one nested block gives exactly
\* one function chunk, lines 1 to 5, with the function's name.
C22_BlockEndBalanced ==
    lastOp.op = "chunkCode" =>
        /\ \A k \in DOMAIN lastOp.chunks :
              (/\ BlockStarted(lastOp.chunks[k])
               /\ BalancedLines(SourceLines, lastOp.chunks[k].startLine) # {})
              => lastOp.chunks[k].endLine
                   = Least(BalancedLines(SourceLines, lastOp.chunks[k].startLine))
        /\ lastOp.source = JoinLines(NestedFunction)
              => lastOp.chunks = <<Chunk(lastOp.source, "function", 1, 5, <<"f">>)>>

\* chunkCode was given the function with the nested block
C22_Witness ==
    /\ lastOp.op = "chunkCode"
    /\ lastOp.source = JoinLines(NestedFunction)
    /\ Len(lastOp.chunks) = 1
    /\ lastOp.chunks[1].endLine = 5

\* from line s on a "{" is opened and the count never returns to zero
NeverBalanced(lines, s) ==
    /\ BalancedLines(lines, s) = {}
    /\ \E i \in s..Len(lines) : Includes(lines[i], <<"{">>)

\* the end of the look-ahead window from line s
WindowEnd(lines, s) == MathMin(s + StatementWindow - 1, Len(lines))

\* the lines of the window that end a statement, and its blank lines
EndsStatement(lines, s) ==
    { i \in s..WindowEnd(lines, s) : EndsWith(Trim(lines[i]), <<";">>) }
BlankAfter(lines, s) ==
    { i \in (s + 1)..WindowEnd(lines, s) : Trim(lines[i]) = <<>> }

\* the statement-end rule from line s: the first line of the window that
\* ends in ";", the line before the first blank line when that comes
\* first, line s when there is neither
StatementRule(lines, s) ==
    IF EndsStatement(lines, s) \cup BlankAfter(lines, s) = {} THEN s
    ELSE IF Least(EndsStatement(lines, s) \cup BlankAfter(lines, s))
              \in BlankAfter(lines, s)
         THEN Least(BlankAfter(lines, s)) - 1
         ELSE Least(EndsStatement(lines, s))

\* C23: a chunk whose braces, opened from its start line on, never balance
\* before the end of the text ends where the statement-end rule applied
\* from its start line ends, at most 29 lines after its start line.
C23_UnbalancedBounded ==
    lastOp.op = "chunkCode" =>
        \A k \in DOMAIN lastOp.chunks :
            (/\ BlockStarted(lastOp.chunks[k])
             /\ NeverBalanced(SourceLines, lastOp.chunks[k].startLine))
            => /\ lastOp.chunks[k].endLine
                    = StatementRule(SourceLines, lastOp.chunks[k].startLine)
               /\ lastOp.chunks[k].endLine
                    <= lastOp.chunks[k].startLine + StatementWindow - 1

\* the line holds no brace
NoBrace(l) == ~Includes(l, <<"{">>) /\ ~Includes(l, <<"}">>)

\* C24: a chunk of a declaration whose own line holds no brace ends where
\* the statement-end rule applied from its start line ends, whatever lines
\* follow it.
C24_BracelessStatementEnd ==
    lastOp.op = "chunkCode" =>
        \A k \in DOMAIN lastOp.chunks :
            (/\ lastOp.chunks[k].type # "import"
             /\ NoBrace(SourceLines[lastOp.chunks[k].startLine]))
            => lastOp.chunks[k].endLine
                 = StatementRule(SourceLines, lastOp.chunks[k].startLine)

\* ------------------------------------------------------------------------
\* Properties of findSimilar over many chunks
\* ------------------------------------------------------------------------

\* the rows of other files than excludeFile that are as similar to the
\* query as the threshold asks
SimilarOutside(q, rs, threshold, excludeFile) ==
    { k \in DOMAIN rs :
        /\ rs[k].file_path # excludeFile
        /\ RowSimilarity(q, rs[k]) # NAN
        /\ RowSimilarity(q, rs[k]) >= threshold }

\* res starts with a row of K that no row of K is more similar than
FirstIsBestOf(res, q, rs, K) ==
    /\ res # <<>>
    /\ \E k \in K :
          /\ res[1].chunk = StripEmbedding(rs[k])
          /\ res[1].similarity = RowSimilarity(q, rs[k])
          /\ \A j \in K : RowSimilarity(q, rs[j]) <= RowSimilarity(q, rs[k])

\* C25: when a stored chunk of another file than excludeFile has a
\* similarity >= threshold to the code, findSimilar returns a result that
\* is not empty and starts with the most similar such chunk, however many
\* chunks of the excluded file rank higher.
C25_FindSimilarComplete ==
    event.kind = "findSimilar" =>
        (SimilarOutside(embed(vectorizer[event.store], event.query), rows,
                        event.threshold, event.exclude) # {}
         => FirstIsBestOf(event.results,
                embed(vectorizer[event.store], event.query), rows,
                SimilarOutside(embed(vectorizer[event.store], event.query),
                               rows, event.threshold, event.exclude)))

\* ------------------------------------------------------------------------
\* Properties of the stored embeddings
\* ------------------------------------------------------------------------

\* every token of the vocabulary then has the same index in the vocabulary now
SameIndexes(then, now) ==
    \A i \in DOMAIN then :
        MapHas(now, then[i][1]) /\ MapGet(now, then[i][1]) = then[i][2]

\* C26: the vocabulary under which the embedding of a stored chunk was
\* computed is a prefix of the current vocabulary of every running instance
\* of the store: the embedding is no longer than the vocabulary, and every
\* index below its length denotes the same token as when it was computed.
C26_EmbeddingVocabularyPrefix ==
    \A s \in Stores :
        open[s] =>
            \A k \in DOMAIN rows :
                /\ Len(rows[k].embedding) <= MapSize(vectorizer[s].vocab)
                /\ SameIndexes(rows[k].embedded_with, vectorizer[s].vocab)

\* the second of two indexCodebase calls has returned: each instance has
\* indexed its root, on a database that was empty before
BothIndexed ==
    /\ event.kind = "indexReturn"
    /\ started = Cardinality(Stores)
    /\ \A c \in CallIds : call[c].pc = "idle"
    /\ \A r \in Roots : SelectRows(rows, r) # <<>>

\* C27: after two instances on one database have each indexed a root, the
\* persisted vectorizer record holds every token either instance trained,
\* with the index under which that instance embedded its chunks, and its
\* totalDocs is the number of chunks of both batches.
C27_NoLostUpdate ==
    BothIndexed =>
        /\ vrec.kind # "missing"
        /\ \A k \in DOMAIN rows :
              SameIndexes(rows[k].embedded_with, LoadVectorizer(vrec).vocab)
        /\ LoadVectorizer(vrec).totalDocs = Len(rows)

\* ------------------------------------------------------------------------
\* Properties of the operations that read
\* ------------------------------------------------------------------------

\* the step is the return of one of the operations that read
ReadStep == event' # event /\ event'.kind \in
                {"search", "findSimilar", "analyzeFile", "fileChunks", "stats",
                 "similarity"}

\* the step is the construction of an instance, which loads the record
OpenStep == \E s \in Stores : ~open[s] /\ open'[s]

\* C28: search, findSimilar, getStats, getFileChunks, embed, cosineSimilarity
\* and analyzeFile change neither the vocabulary, the df table and totalDocs
\* of an instance, nor the persisted vectorizer record, nor a chunk row;
\* these change in the steps of an indexCodebase call only (an instance
\* gets its vectorizer when it is constructed).
C28_ReadsChangeNothing ==
    [][ /\ ReadStep => UNCHANGED <<vectorizer, vrec, rows>>
        /\ ~UNCHANGED <<vectorizer, vrec, rows>>
              => OpenStep \/ \E c \in CallIds : IndexStep(c) ]_vars

\* a read has returned on an instance whose vectorizer is trained, over a
\* database that holds rows and a record
C28_Witness ==
    /\ event.kind \in {"search", "analyzeFile", "similarity"}
    /\ event.results # <<>>
    /\ vectorizer[event.store].totalDocs > 0
    /\ rows # <<>>
    /\ vrec.kind # "missing"

\* ------------------------------------------------------------------------
\* Properties of the FileWatcher
\* ------------------------------------------------------------------------

Stopped == \E i \in DOMAIN emitted : emitted[i].event = "stopped"

\* C29: once stop() has returned and "stopped" was emitted, no "changes"
\* event is emitted any more, also when a readFile was pending or a timer
\* was armed when stop() was called.
C29_NoChangesAfterStop ==
    \A i, j \in DOMAIN emitted :
        i < j /\ emitted[i].event = "stopped" => emitted[j].event # "changes"

\* the numbers of the changes of all batches emitted so far, in their order
RECURSIVE Delivered(_)
Delivered(es) ==
    IF es = <<>> THEN <<>>
    ELSE [k \in DOMAIN Head(es).batch |-> Head(es).batch[k].n] \o Delivered(Tail(es))

\* C30: while the FileWatcher runs and was never stopped, the batches
\* emitted so far, one after the other, hold the events received in the
\* order in which they were received, none twice and none left out before
\* a later one.
C30_DeliveredInOrder ==
    ~Stopped =>
        /\ Len(Delivered(emitted)) <= Len(received)
        /\ \A k \in DOMAIN Delivered(emitted) : Delivered(emitted)[k] = k
====
